---- MODULE Spec2Model ----
(***************************************************************************)
(* A model of finboard's realtime connection manager (WebSocketManager),   *)
(* of its adapter factory (ApiAdapterRegistry / ApiAdapterFactory) and of  *)
(* the operations of its four adapters.                                    *)
(*                                                                         *)
(* Every handler of the manager runs to completion on the JavaScript event *)
(* loop, so each is one atomic action.  The browser side of a WebSocket    *)
(* (open, message, error and close events, timer callbacks) is the         *)
(* environment: its events are actions whose inputs are drawn from small   *)
(* sets.                                                                   *)
(***************************************************************************)
EXTENDS Integers, Sequences, FiniteSets, TLC

VARIABLES
  connections,        \* providerId -> index of the tracked WebSocket
  subscriptions,      \* providerId -> symbols, in insertion order (a JS Set)
  handlers,           \* providerId -> set of registered handlers
  reconnectAttempts,  \* providerId -> attempt counter
  reconnectTimers,    \* providerId -> index of the timer the manager tracks
  sockets,            \* every WebSocket object created so far
  timers,             \* pending timeouts, keyed by the socket whose close set them
  wire,               \* frames sent by the step just taken, in order
  notified,           \* handler invocations made by the step just taken
  intent,             \* providerId -> the caller's last lifecycle call
  intended,           \* providerId -> symbols the caller's calls add up to
  offline,            \* providerId -> the last (un)subscribe came while not open
  scenario,           \* providerId -> position in the connection-lifecycle test
  scope,              \* the provider ids the callers of this run use
  adapters,           \* ApiAdapterRegistry.adapters: the provider ids with a constructor
  instances,          \* ApiAdapterFactory.instances: cacheKey -> adapter object
  allocated,          \* number of adapter objects constructed so far
  served,             \* resolutions made since the cache was last cleared
  answer,             \* the factory call just made and what it returned
  calls,              \* caller -> the adapter operation it awaits, if any
  report,             \* what the operation that settled last returned
  invocation,         \* the adapter operation invoked last, with its inputs
  result              \* how that operation ended

wsVars == << connections, subscriptions, handlers, reconnectAttempts,
             reconnectTimers, sockets, timers, wire, notified,
             intent, intended, offline, scenario, scope >>

factoryVars == << adapters, instances, allocated, served, answer, calls, report >>

adapterVars == << invocation, result >>

vars == << wsVars, factoryVars, adapterVars >>

-----------------------------------------------------------------------------
(* Bounds of the model. *)

\* WebSocket objects created in a run of Spec.
MaxSockets == 3

\* WebSocket objects created in a run of FeedSpec.
MaxFeedSockets == 2

-----------------------------------------------------------------------------
(* Maps (JavaScript Map) as functions with a finite domain. *)

EmptyMap == [k \in {} |-> 0]

Has(m, k) == k \in DOMAIN m

MapSet(m, k, v) == [x \in DOMAIN m \cup {k} |-> IF x = k THEN v ELSE m[x]]

MapDelete(m, k) == [x \in DOMAIN m \ {k} |-> m[x]]

Range(s) == { s[i] : i \in DOMAIN s }

RECURSIVE Pow2(_)
Pow2(n) == IF n = 0 THEN 1 ELSE 2 * Pow2(n - 1)

-----------------------------------------------------------------------------
(* Inputs of the connection manager. *)

Providers == {"finnhub", "alpha-vantage", "custom-feed"}

GoodUrl == "wss://ws.finnhub.io"

\* new WebSocket(url) throws a SyntaxError for a url that is no ws(s) url.
UrlParses(url) == url = GoodUrl

\* The WebSocketConfig values a deployment hands to connect for a provider;
\* 0 stands for an absent (or zero) optional number.
Configs(providerId) ==
  IF providerId = "finnhub"
  THEN { [url |-> GoodUrl, reconnectInterval |-> 1000, maxReconnectAttempts |-> 1],
         [url |-> "finnhub.io", reconnectInterval |-> 1000, maxReconnectAttempts |-> 1] }
  ELSE IF providerId = "custom-feed"
  THEN { [url |-> GoodUrl, reconnectInterval |-> 0, maxReconnectAttempts |-> 2] }
  ELSE { [url |-> GoodUrl, reconnectInterval |-> 0, maxReconnectAttempts |-> 0] }

\* Symbols as the caller writes them, character by character.
RawSymbols == { <<"f">>, <<"F">>, <<"g", "e">> }

SymbolArgs == { <<s>> : s \in RawSymbols } \cup { << <<"f">>, <<"g", "e">> >> }

\* The one subscription argument of a run of Spec.
BriefArgs == { << <<"f">> >> }

HandlerIds == {"h1", "h2"}

\* The one handler of a run of Spec.
BriefHandlers == {"h2"}

NormalClosure == 1000

AbnormalClosure == 1006

DefaultMaxAttempts == 5

DefaultInterval == 5000

UpperChar(c) ==
  CASE c = "f" -> "F"
    [] c = "g" -> "G"
    [] c = "e" -> "E"
    [] OTHER -> c

toUpperCase(s) == [i \in 1..Len(s) |-> UpperChar(s[i])]

MapUpper(symbols) == [i \in 1..Len(symbols) |-> toUpperCase(symbols[i])]

-----------------------------------------------------------------------------
(* The manager's state as one record, so that a handler that calls another *)
(* (connect calls disconnect, the timer callback calls connect) composes.  *)

\* What a step did with an inbound event: the frame it received (onmessage),
\* the message it fanned out and the handler calls it made, in order.
NoNotification == [ providerId |-> "", frame |-> "", type |-> "", calls |-> << >> ]

St ==
  [ connections |-> connections,
    subscriptions |-> subscriptions,
    handlers |-> handlers,
    reconnectAttempts |-> reconnectAttempts,
    reconnectTimers |-> reconnectTimers,
    sockets |-> sockets,
    timers |-> timers,
    wire |-> << >>,
    notified |-> NoNotification ]

Commit(S) ==
  /\ connections' = S.connections
  /\ subscriptions' = S.subscriptions
  /\ handlers' = S.handlers
  /\ reconnectAttempts' = S.reconnectAttempts
  /\ reconnectTimers' = S.reconnectTimers
  /\ sockets' = S.sockets
  /\ timers' = S.timers
  /\ wire' = S.wire
  /\ notified' = S.notified
  /\ UNCHANGED << factoryVars, adapterVars >>

\* WebSocket.close(): a no-op on a closing or closed socket; otherwise the
\* socket is CLOSING until the browser delivers its close event.
SocketClose(sock) ==
  IF sock.readyState \in {"CONNECTING", "OPEN"}
  THEN [sock EXCEPT !.readyState = "CLOSING", !.closeFrom = sock.readyState]
  ELSE sock

\* clearTimeout(id): cancels the timer if it has not fired yet.
ClearTimeout(pending, id) == MapDelete(pending, id)

\* A closed socket gets no further event; what the model remembered about it
\* is dropped.
Closed(sock) ==
  [ providerId |-> sock.providerId, config |-> sock.config, readyState |-> "CLOSED",
    closeFrom |-> "", origin |-> "" ]

\* The close codes the browser can report for a socket.  A socket that never
\* opened (also one the client closed while CONNECTING) fails with 1006; an
\* open socket closes normally or abnormally.
CloseCodes(sock) ==
  IF sock.readyState = "CONNECTING"
     \/ (sock.readyState = "CLOSING" /\ sock.closeFrom = "CONNECTING")
  THEN {AbnormalClosure}
  ELSE {NormalClosure, AbnormalClosure}

-----------------------------------------------------------------------------
(* WebSocketManager *)

disconnect_DropsSubscriptions(S, providerId) ==
  LET S1 == IF Has(S.connections, providerId)
            THEN [S EXCEPT !.sockets[S.connections[providerId]] = SocketClose(@),
                           !.connections = MapDelete(@, providerId)]
            ELSE S
      S2 == IF Has(S1.reconnectTimers, providerId)
            THEN [S1 EXCEPT !.timers = ClearTimeout(@, S1.reconnectTimers[providerId]),
                            !.reconnectTimers = MapDelete(@, providerId)]
            ELSE S1
  IN  [S2 EXCEPT !.reconnectAttempts = MapDelete(@, providerId),
                 !.subscriptions = MapDelete(@, providerId)]

disconnect(S, providerId) ==
  LET S1 == IF Has(S.connections, providerId)
            THEN [S EXCEPT !.sockets[S.connections[providerId]] = SocketClose(@),
                           !.connections = MapDelete(@, providerId)]
            ELSE S
      S2 == IF Has(S1.reconnectTimers, providerId)
            THEN [S1 EXCEPT !.timers = ClearTimeout(@, S1.reconnectTimers[providerId]),
                            !.reconnectTimers = MapDelete(@, providerId)]
            ELSE S1
  IN  [S2 EXCEPT !.reconnectAttempts = MapDelete(@, providerId)]

\* connect(): origin tells a caller's connect from the timer callback's.
connect(S, providerId, config, origin) ==
  LET S1 == IF Has(S.connections, providerId) THEN disconnect(S, providerId) ELSE S
      ws == [ providerId |-> providerId, config |-> config,
              readyState |-> "CONNECTING", closeFrom |-> "", origin |-> origin ]
  IN  IF UrlParses(config.url)
      THEN [S1 EXCEPT !.sockets = Append(@, ws),
                      !.connections = MapSet(@, providerId, Len(S1.sockets) + 1)]
      ELSE S1

\* A frame handed to ws.send, with the provider's attempt counter at that
\* moment (-1 when the provider has none).
Frame(S, sock, type, field, symbols) ==
  [ sock |-> sock, type |-> type, field |-> field, symbols |-> symbols,
    counter |-> IF Has(S.reconnectAttempts, S.sockets[sock].providerId)
                THEN S.reconnectAttempts[S.sockets[sock].providerId] ELSE -1 ]

authenticateConnection(S, ws, providerId) ==
  CASE providerId = "finnhub" ->
         [S EXCEPT !.wire = Append(@, Frame(S, ws, "auth", "token", << >>))]
    [] providerId = "alpha-vantage" ->
         [S EXCEPT !.wire = Append(@, Frame(S, ws, "authenticate", "apikey", << >>))]
    [] OTHER ->
         [S EXCEPT !.wire = Append(@, Frame(S, ws, "auth", "apiKey", << >>))]

sendSubscriptionMessage_FirstOnly(S, ws, providerId, symbols, action) ==
  CASE providerId = "finnhub" ->
         [S EXCEPT !.wire = @ \o [i \in 1..(IF Len(symbols) = 0 THEN 0 ELSE 1) |->
                                    Frame(S, ws, action, "symbol", << symbols[i] >>)]]
    [] providerId = "alpha-vantage" ->
         [S EXCEPT !.wire = Append(@, Frame(S, ws,
              IF action = "subscribe" THEN "SUBSCRIBE" ELSE "UNSUBSCRIBE",
              "symbols", SubSeq(symbols, 1, 1)))]
    [] OTHER ->
         [S EXCEPT !.wire = Append(@, Frame(S, ws, action, "symbols", SubSeq(symbols, 1, 1)))]

sendSubscriptionMessage(S, ws, providerId, symbols, action) ==
  CASE providerId = "finnhub" ->
         [S EXCEPT !.wire = @ \o [i \in 1..Len(symbols) |->
                                    Frame(S, ws, action, "symbol", << symbols[i] >>)]]
    [] providerId = "alpha-vantage" ->
         [S EXCEPT !.wire = Append(@, Frame(S, ws,
              IF action = "subscribe" THEN "SUBSCRIBE" ELSE "UNSUBSCRIBE",
              "symbols", symbols))]
    [] OTHER ->
         [S EXCEPT !.wire = Append(@, Frame(S, ws, action, "symbols", symbols))]

\* Set.add / Set.delete on an insertion-ordered set.
SetAdd(set, x) == IF x \in Range(set) THEN set ELSE Append(set, x)

SetDelete(set, x) == SelectSeq(set, LAMBDA y : y # x)

RECURSIVE AddAll(_, _)
AddAll(set, symbols) ==
  IF symbols = << >> THEN set
  ELSE AddAll(SetAdd(set, toUpperCase(Head(symbols))), Tail(symbols))

RECURSIVE DeleteAll(_, _)
DeleteAll(set, symbols) ==
  IF symbols = << >> THEN set
  ELSE DeleteAll(SetDelete(set, toUpperCase(Head(symbols))), Tail(symbols))

IsOpen(S, providerId) ==
  /\ Has(S.connections, providerId)
  /\ S.sockets[S.connections[providerId]].readyState = "OPEN"

subscribe_OnlyWhenOpen(S, providerId, symbols) ==
  IF IsOpen(S, providerId)
  THEN sendSubscriptionMessage(
         [S EXCEPT !.subscriptions = MapSet(@, providerId,
            AddAll(IF Has(S.subscriptions, providerId)
                   THEN S.subscriptions[providerId] ELSE << >>, symbols))],
         S.connections[providerId], providerId, MapUpper(symbols), "subscribe")
  ELSE S

subscribe(S, providerId, symbols) ==
  LET existingSymbols == IF Has(S.subscriptions, providerId)
                         THEN S.subscriptions[providerId] ELSE << >>
      S1 == [S EXCEPT !.subscriptions =
                        MapSet(@, providerId, AddAll(existingSymbols, symbols))]
  IN  IF IsOpen(S1, providerId)
      THEN sendSubscriptionMessage(S1, S1.connections[providerId], providerId,
                                   MapUpper(symbols), "subscribe")
      ELSE S1

unsubscribe(S, providerId, symbols) ==
  IF Has(S.subscriptions, providerId)
  THEN LET S1 == [S EXCEPT !.subscriptions[providerId] = DeleteAll(@, symbols)]
       IN  IF IsOpen(S1, providerId)
           THEN sendSubscriptionMessage(S1, S1.connections[providerId], providerId,
                                        MapUpper(symbols), "unsubscribe")
           ELSE S1
  ELSE S

addHandler(S, providerId, handler) ==
  [S EXCEPT !.handlers = MapSet(@, providerId,
      (IF Has(S.handlers, providerId) THEN S.handlers[providerId] ELSE {})
        \cup {handler})]

removeHandler(S, providerId, handler) ==
  IF Has(S.handlers, providerId)
  THEN [S EXCEPT !.handlers[providerId] = @ \ {handler}]
  ELSE S

getConnectionStatus(S, providerId) ==
  IF ~Has(S.connections, providerId) THEN "closed"
  ELSE LET state == S.sockets[S.connections[providerId]].readyState
       IN  CASE state = "CONNECTING" -> "connecting"
             [] state = "OPEN" -> "open"
             [] OTHER -> "closed"

getSubscriptions(S, providerId) ==
  IF Has(S.subscriptions, providerId) THEN S.subscriptions[providerId] ELSE << >>

\* Inbound text frames: one that is no JSON, a trade frame, a frame without type.
InboundFrames == {"not json", "trade", "untyped"}

JsonParses(data) == data # "not json"

\* parseMessage: the type of the canonical message a parsed frame becomes.
parseMessage(data, providerId) ==
  CASE providerId = "finnhub" -> IF data = "trade" THEN "quote" ELSE "error"
    [] providerId = "alpha-vantage" -> "quote"
    [] OTHER -> IF data = "trade" THEN "trade" ELSE "quote"

\* The handlers that throw on every message they are called with.
Throwing == {"h1"}

RECURSIVE forEach(_, _, _)
\* handlers.forEach(handler => { try { handler(message) } catch ... }): the
\* calls made, given those made so far; without the catch the exception of a
\* throwing handler leaves the loop.
forEach(todo, made, catch) ==
  IF todo = {} THEN made
  ELSE LET handler == CHOOSE h \in todo : TRUE
       IN  IF handler \in Throwing /\ ~catch THEN Append(made, handler)
           ELSE forEach(todo \ {handler}, Append(made, handler), catch)

\* The mutation of handleMessage that calls the handlers without a try.
handleMessage_Uncaught(S, providerId, type) ==
  IF Has(S.handlers, providerId)
  THEN [S EXCEPT !.notified.providerId = providerId,
                 !.notified.type = type,
                 !.notified.calls = forEach(S.handlers[providerId], << >>, FALSE)]
  ELSE S

\* handleMessage: every registered handler is called; one that throws is caught.
handleMessage(S, providerId, type) ==
  IF Has(S.handlers, providerId)
  THEN [S EXCEPT !.notified.providerId = providerId,
                 !.notified.type = type,
                 !.notified.calls = forEach(S.handlers[providerId], << >>, TRUE)]
  ELSE S

attemptReconnect_Doubled(S, providerId, config, by) ==
  LET attempts == IF Has(S.reconnectAttempts, providerId)
                  THEN S.reconnectAttempts[providerId] ELSE 0
      maxAttempts == IF config.maxReconnectAttempts = 0
                     THEN DefaultMaxAttempts ELSE config.maxReconnectAttempts
      interval == IF config.reconnectInterval = 0
                  THEN DefaultInterval ELSE config.reconnectInterval
      timer == [ providerId |-> providerId, config |-> config, attempts |-> attempts,
                 delay |-> interval * Pow2(attempts + 1) ]
  IN  IF attempts >= maxAttempts
      THEN S
      ELSE [S EXCEPT !.timers = MapSet(@, by, timer),
                     !.reconnectTimers = MapSet(@, providerId, by)]

\* attemptReconnect: by is the socket whose close event schedules the timer; a
\* socket closes once, so by also serves as the id setTimeout returns.
attemptReconnect(S, providerId, config, by) ==
  LET attempts == IF Has(S.reconnectAttempts, providerId)
                  THEN S.reconnectAttempts[providerId] ELSE 0
      maxAttempts == IF config.maxReconnectAttempts = 0
                     THEN DefaultMaxAttempts ELSE config.maxReconnectAttempts
      interval == IF config.reconnectInterval = 0
                  THEN DefaultInterval ELSE config.reconnectInterval
      backoffInterval == interval * Pow2(attempts)
      timer == [ providerId |-> providerId, config |-> config, attempts |-> attempts,
                 delay |-> backoffInterval ]
  IN  IF attempts >= maxAttempts
      THEN S
      ELSE [S EXCEPT !.timers = MapSet(@, by, timer),
                     !.reconnectTimers = MapSet(@, providerId, by)]

\* The mutation of ws.onopen that re-subscribes before it authenticates.
onopen_SubscribesFirst(S, ws) ==
  LET providerId == S.sockets[ws].providerId
      S1 == [S EXCEPT !.sockets[ws].readyState = "OPEN",
                      !.reconnectAttempts = MapSet(@, providerId, 0)]
      S2 == IF Has(S1.subscriptions, providerId) /\ Len(S1.subscriptions[providerId]) > 0
            THEN sendSubscriptionMessage(S1, ws, providerId,
                                         S1.subscriptions[providerId], "subscribe")
            ELSE S1
  IN  authenticateConnection(S2, ws, providerId)

\* ws.onopen
onopen(S, ws) ==
  LET providerId == S.sockets[ws].providerId
      S1 == [S EXCEPT !.sockets[ws].readyState = "OPEN",
                      !.reconnectAttempts = MapSet(@, providerId, 0)]
      S2 == authenticateConnection(S1, ws, providerId)
  IN  IF Has(S2.subscriptions, providerId) /\ Len(S2.subscriptions[providerId]) > 0
      THEN sendSubscriptionMessage(S2, ws, providerId,
                                   S2.subscriptions[providerId], "subscribe")
      ELSE S2

\* The mutation of ws.onmessage whose catch reports the failure to the handlers.
onmessage_ReportsFailure(S, ws, data) ==
  LET providerId == S.sockets[ws].providerId
      S1 == [S EXCEPT !.notified.frame = data]
  IN  handleMessage(S1, providerId,
                    IF JsonParses(data) THEN parseMessage(data, providerId) ELSE "error")

\* ws.onmessage
onmessage(S, ws, data) ==
  LET providerId == S.sockets[ws].providerId
      S1 == [S EXCEPT !.notified.frame = data]
  IN  IF JsonParses(data)
      THEN handleMessage(S1, providerId, parseMessage(data, providerId))
      ELSE S1

\* The mutation of ws.onclose that does not look at the close code.
onclose_AnyCode(S, ws, code) ==
  LET providerId == S.sockets[ws].providerId
      S1 == [S EXCEPT !.sockets[ws] = Closed(@),
                      !.connections = MapDelete(@, providerId)]
  IN  attemptReconnect(S1, providerId, S.sockets[ws].config, ws)

\* ws.onclose
onclose(S, ws, code) ==
  LET providerId == S.sockets[ws].providerId
      S1 == [S EXCEPT !.sockets[ws] = Closed(@),
                      !.connections = MapDelete(@, providerId)]
  IN  IF code # NormalClosure
      THEN attemptReconnect(S1, providerId, S.sockets[ws].config, ws)
      ELSE S1

\* ws.onerror
onerror(S, ws) == handleMessage(S, S.sockets[ws].providerId, "error")

\* The callback attemptReconnect hands to setTimeout.
reconnectCallback(S, timer) ==
  LET t == S.timers[timer]
      S1 == [S EXCEPT !.timers = MapDelete(@, timer),
                      !.reconnectAttempts = MapSet(@, t.providerId, t.attempts + 1)]
  IN  connect(S1, t.providerId, t.config, "reconnect")

RECURSIVE DisconnectEach(_, _)
DisconnectEach(S, providerIds) ==
  IF providerIds = {} THEN S
  ELSE LET providerId == CHOOSE x \in providerIds : TRUE
       IN  DisconnectEach(disconnect(S, providerId), providerIds \ {providerId})

cleanup(S) ==
  LET S1 == DisconnectEach(S, DOMAIN S.connections)
  IN  [S1 EXCEPT !.handlers = EmptyMap, !.subscriptions = EmptyMap]

-----------------------------------------------------------------------------
(* Bookkeeping for the properties: what the caller asked for.              *)

\* The connection-lifecycle test: connect, subscribe, an abnormal close, the
\* reconnect, an abnormal close of the reconnect's socket; the sockets may open
\* in between, any other event on the provider leaves the test.
ScenarioAfter(phase, event) ==
  CASE phase = "fresh" /\ event = "connect" -> "connected"
    [] phase = "connected" /\ event = "subscribe" -> "subscribed"
    [] phase \in {"connected", "subscribed"} /\ event = "open" -> phase
    [] phase = "subscribed" /\ event = "abnormal close" -> "closed once"
    [] phase = "closed once" /\ event = "reconnect" -> "reconnected"
    [] phase = "reconnected" /\ event = "open" -> "reopened"
    [] phase = "reconnected" /\ event = "abnormal close" -> "closed twice"
    [] phase = "reopened" /\ event = "abnormal close" -> "closed twice after open"
    [] OTHER -> "off"

Observe(providerId, event) ==
  scenario' = [scenario EXCEPT ![providerId] = ScenarioAfter(@, event)]

UpperSet(symbols) == { toUpperCase(symbols[i]) : i \in 1..Len(symbols) }

-----------------------------------------------------------------------------
(* The connection manager's actions.  limit bounds the sockets of a run;   *)
(* args and ids are the inputs the callers of the run choose from.         *)

WsInit ==
  /\ connections = EmptyMap
  /\ subscriptions = EmptyMap
  /\ handlers = EmptyMap
  /\ reconnectAttempts = EmptyMap
  /\ reconnectTimers = EmptyMap
  /\ sockets = << >>
  /\ timers = EmptyMap
  /\ wire = << >>
  /\ notified = NoNotification
  /\ intent = [p \in Providers |-> "none"]
  /\ intended = [p \in Providers |-> {}]
  /\ offline = [p \in Providers |-> FALSE]
  /\ scenario = [p \in Providers |-> "fresh"]

Connect(limit) ==
  \E providerId \in scope :
    \E config \in Configs(providerId) :
      LET S == connect(St, providerId, config, "explicit") IN
      /\ Len(sockets) < limit
      /\ Commit(S)
      /\ intent' = [intent EXCEPT ![providerId] = "connect"]
      /\ Observe(providerId,
                 IF Len(S.sockets) > Len(sockets) THEN "connect" ELSE "connect failed")
      /\ UNCHANGED << intended, offline, scope >>

Disconnect ==
  \E providerId \in scope :
    /\ Commit(disconnect(St, providerId))
    /\ intent' = [intent EXCEPT ![providerId] = "disconnect"]
    /\ Observe(providerId, "disconnect")
    /\ UNCHANGED << intended, offline, scope >>

Subscribe(args) ==
  \E providerId \in scope, symbols \in args :
    /\ Commit(subscribe(St, providerId, symbols))
    /\ intended' = [intended EXCEPT ![providerId] = @ \cup UpperSet(symbols)]
    /\ offline' = [offline EXCEPT ![providerId] =
                     getConnectionStatus(St, providerId) # "open"]
    /\ Observe(providerId, "subscribe")
    /\ UNCHANGED << intent, scope >>

Unsubscribe(args) ==
  \E providerId \in scope, symbols \in args :
    /\ Commit(unsubscribe(St, providerId, symbols))
    /\ intended' = [intended EXCEPT ![providerId] = @ \ UpperSet(symbols)]
    /\ offline' = [offline EXCEPT ![providerId] =
                     getConnectionStatus(St, providerId) # "open"]
    /\ Observe(providerId, "unsubscribe")
    /\ UNCHANGED << intent, scope >>

AddHandler(ids) ==
  \E providerId \in scope, handler \in ids :
    /\ Commit(addHandler(St, providerId, handler))
    /\ Observe(providerId, "addHandler")
    /\ UNCHANGED << intent, intended, offline, scope >>

RemoveHandler(ids) ==
  \E providerId \in scope, handler \in ids :
    /\ Commit(removeHandler(St, providerId, handler))
    /\ Observe(providerId, "removeHandler")
    /\ UNCHANGED << intent, intended, offline, scope >>

Cleanup ==
  /\ Commit(cleanup(St))
  /\ intent' = [p \in Providers |-> "cleanup"]
  /\ intended' = [p \in Providers |-> {}]
  /\ offline' = [p \in Providers |-> FALSE]
  /\ scenario' = [p \in Providers |-> "off"]
  /\ UNCHANGED scope

OnOpen ==
  \E ws \in 1..Len(sockets) :
    /\ sockets[ws].readyState = "CONNECTING"
    /\ Commit(onopen(St, ws))
    /\ Observe(sockets[ws].providerId, "open")
    /\ UNCHANGED << intent, intended, offline, scope >>

OnMessage ==
  \E ws \in 1..Len(sockets), data \in InboundFrames :
    /\ sockets[ws].readyState = "OPEN"
    /\ Commit(onmessage(St, ws, data))
    /\ Observe(sockets[ws].providerId, "message")
    /\ UNCHANGED << intent, intended, offline, scope >>

OnError ==
  \E ws \in 1..Len(sockets) :
    /\ sockets[ws].readyState \in {"CONNECTING", "OPEN"}
    /\ Commit(onerror(St, ws))
    /\ Observe(sockets[ws].providerId, "error")
    /\ UNCHANGED << intent, intended, offline, scope >>

OnClose ==
  \E ws \in 1..Len(sockets) :
    \E code \in CloseCodes(sockets[ws]) :
      /\ sockets[ws].readyState # "CLOSED"
      /\ Commit(onclose(St, ws, code))
      /\ Observe(sockets[ws].providerId,
                 IF code = NormalClosure THEN "normal close" ELSE "abnormal close")
      /\ UNCHANGED << intent, intended, offline, scope >>

TimerFires(limit) ==
  \E timer \in DOMAIN timers :
    /\ Len(sockets) < limit
    /\ Commit(reconnectCallback(St, timer))
    /\ Observe(timers[timer].providerId, "reconnect")
    /\ UNCHANGED << intent, intended, offline, scope >>

-----------------------------------------------------------------------------
(* The adapter factory. *)

\* The provider ids registered when the class is loaded.
BuiltIn == {"alpha-vantage", "finnhub", "indian-api"}

\* The ids of the custom API configurations a user saves.
CustomIds == {"a", "a-b"}

\* CustomApiAdapter's constructor: the provider id of a custom configuration.
CustomProviderId(id) == "custom-" \o id

\* The provider ids and the ids of the user configurations that are resolved.
ProviderIds == {"finnhub", "unknown"} \cup { CustomProviderId(id) : id \in CustomIds }

ConfigIds == {"c", "b-c"}

UserApiConfigs == [providerId : ProviderIds, id : ConfigIds]

\* Adapter objects constructed in a run of FactorySpec.
MaxAdapters == 4

\* No adapter: objects are numbered from 1 in the order of their construction.
Null == 0

\* The configurations of a run of ClientSpec: two of a built-in provider and
\* one of a provider that is not registered.
ClientConfigs ==
  { [providerId |-> "finnhub", id |-> "c"], [providerId |-> "finnhub", id |-> "b-c"],
    [providerId |-> "unknown", id |-> "c"] }

\* The callers (widgets) that use the client at the same time.
Callers == {"w1", "w2"}

NoConfig == [providerId |-> "", id |-> ""]

\* A caller that awaits nothing.
Idle == [op |-> "none", config |-> NoConfig, adapter |-> Null, fresh |-> FALSE]

NoReport == [op |-> "none", outcome |-> "", success |-> FALSE, error |-> "", thrown |-> FALSE]

\* How the promise of adapter.getQuote settles: resolved with a quote, resolved
\* with {success: false, error}, rejected with an ApiError, with another Error,
\* or with a value that is no Error.
Outcomes == {"quote", "failure", "ApiError", "Error", "thrown value"}

FactoryInit ==
  /\ adapters = BuiltIn
  /\ instances = << >>
  /\ allocated = 0
  /\ served = {}
  /\ answer = Null
  /\ calls = [c \in Callers |-> Idle]
  /\ report = NoReport

endsWith(str, suffix) ==
  /\ Len(suffix) <= Len(str)
  /\ SubSeq(str, Len(str) - Len(suffix) + 1, Len(str)) = suffix

CacheKey(config) == config.providerId \o "-" \o config.id

Cached_Never(key) == {}

\* The positions of the cache, in insertion order, that hold the key.  An
\* entry also remembers the configuration it was created for.
Cached(key) == { i \in 1..Len(instances) : instances[i].key = key }

\* ApiAdapterRegistry.createAdapter: a new object from the provider's
\* constructor, or null.
createAdapter(providerId) == IF providerId \in adapters THEN allocated + 1 ELSE Null

\* ApiAdapterRegistry.register: the constructor is stored and called once to
\* read the provider description.
Register ==
  \E id \in CustomIds :
    /\ allocated < MaxAdapters
    /\ adapters' = adapters \cup {CustomProviderId(id)}
    /\ allocated' = allocated + 1
    /\ answer' = Null
    /\ UNCHANGED << instances, served, calls, report, wsVars, adapterVars >>

\* ApiAdapterFactory.getAdapter: synchronous, so one step.
getAdapter(config) ==
  LET cacheKey == CacheKey(config)
      adapter == createAdapter(config.providerId)
  IN  IF Cached(cacheKey) # {}
      THEN LET hit == instances[CHOOSE i \in Cached(cacheKey) : TRUE].adapter
           IN  /\ answer' = hit
               /\ served' = served \cup {[config |-> config, adapter |-> hit]}
               /\ UNCHANGED << adapters, instances, allocated, wsVars, adapterVars >>
      ELSE IF adapter # Null
      THEN /\ allocated < MaxAdapters
           /\ allocated' = adapter
           /\ instances' = Append(instances, [key |-> cacheKey, adapter |-> adapter,
                                              createdFor |-> config])
           /\ answer' = adapter
           /\ served' = served \cup {[config |-> config, adapter |-> adapter]}
           /\ UNCHANGED << adapters, wsVars, adapterVars >>
      ELSE /\ answer' = Null
           /\ UNCHANGED << adapters, instances, allocated, served, wsVars, adapterVars >>

GetAdapter ==
  \E config \in UserApiConfigs : getAdapter(config) /\ UNCHANGED << calls, report >>

\* The message of what a rejected promise was rejected with.
Message(outcome) ==
  CASE outcome = "failure" -> "remote failure"
    [] outcome = "ApiError" -> "api error"
    [] outcome = "Error" -> "error"
    [] OTHER -> ""

testConnection_Uncaught(outcome) ==
  CASE outcome = "no adapter" ->
         [success |-> FALSE, error |-> "Adapter not found", thrown |-> FALSE]
    [] outcome = "quote" -> [success |-> TRUE, error |-> "", thrown |-> FALSE]
    [] outcome = "failure" -> [success |-> FALSE, error |-> Message(outcome), thrown |-> FALSE]
    [] OTHER -> [success |-> FALSE, error |-> "", thrown |-> TRUE]

\* ApiAdapterFactory.testConnection: what it returns for each way its getQuote
\* call ends ("no adapter": getAdapter returned null).
testConnection(outcome) ==
  CASE outcome = "no adapter" ->
         [success |-> FALSE, error |-> "Adapter not found", thrown |-> FALSE]
    [] outcome = "quote" -> [success |-> TRUE, error |-> "", thrown |-> FALSE]
    [] outcome = "failure" -> [success |-> FALSE, error |-> Message(outcome), thrown |-> FALSE]
    [] outcome \in {"ApiError", "Error"} ->
         [success |-> FALSE, error |-> Message(outcome), thrown |-> FALSE]
    [] OTHER -> [success |-> FALSE, error |-> "Connection test failed", thrown |-> FALSE]

\* FinancialApiClient.getStockQuote: the same for the client's quote call.
getStockQuote(outcome) ==
  CASE outcome = "no adapter" ->
         [success |-> FALSE, error |-> "Failed to create adapter", thrown |-> FALSE]
    [] outcome = "quote" -> [success |-> TRUE, error |-> "", thrown |-> FALSE]
    [] outcome = "failure" -> [success |-> FALSE, error |-> Message(outcome), thrown |-> FALSE]
    [] outcome \in {"ApiError", "Error"} ->
         [success |-> FALSE, error |-> Message(outcome), thrown |-> FALSE]
    [] OTHER -> [success |-> FALSE, error |-> "Unknown error occurred", thrown |-> FALSE]

Returned(op, outcome) ==
  LET r == IF op = "test" THEN testConnection(outcome) ELSE getStockQuote(outcome)
  IN  [op |-> op, outcome |-> outcome, success |-> r.success, error |-> r.error,
       thrown |-> r.thrown]

\* An operation runs up to its await in one step: it resolves the adapter and
\* calls adapter.getQuote, or returns at once if there is no adapter.
Awaits(op, caller, config) ==
  IF answer' = Null
  THEN /\ report' = Returned(op, "no adapter")
       /\ UNCHANGED calls
  ELSE /\ calls' = [calls EXCEPT ![caller] = [op |-> op, config |-> config,
                                              adapter |-> answer', fresh |-> TRUE]]
       /\ UNCHANGED report

\* FinancialApiClient.getStockQuote, as getMultipleQuotes starts it per symbol.
GetStockQuote ==
  \E caller \in Callers, config \in ClientConfigs :
    /\ calls[caller] = Idle
    /\ getAdapter(config)
    /\ Awaits("quote", caller, config)

\* ApiAdapterFactory.testConnection
TestConnection ==
  \E caller \in Callers, config \in ClientConfigs :
    /\ calls[caller] = Idle
    /\ getAdapter(config)
    /\ Awaits("test", caller, config)

\* The promise of an awaited adapter.getQuote settles and the operation returns.
Settles ==
  \E caller \in Callers, outcome \in Outcomes :
    /\ calls[caller] # Idle
    /\ report' = Returned(calls[caller].op, outcome)
    /\ calls' = [calls EXCEPT ![caller] = Idle]
    /\ answer' = Null
    /\ UNCHANGED << adapters, instances, allocated, served, wsVars, adapterVars >>

\* The cache without its first entry, in insertion order, whose key ends with
\* the suffix.
DeleteFirst(cache, suffix) ==
  LET hits == { i \in 1..Len(cache) : endsWith(cache[i].key, suffix) }
  IN  IF hits = {} THEN cache
      ELSE LET first == CHOOSE i \in hits : \A j \in hits : i <= j
           IN  SubSeq(cache, 1, first - 1) \o SubSeq(cache, first + 1, Len(cache))

\* ApiAdapterFactory.clearCache; the empty string stands for no argument.
clearCache(configId) ==
  /\ instances' = IF configId # "" THEN DeleteFirst(instances, "-" \o configId) ELSE << >>
  /\ served' = {}
  /\ answer' = Null
  /\ calls' = [c \in Callers |-> [calls[c] EXCEPT !.fresh = FALSE]]
  /\ UNCHANGED << adapters, allocated, report, wsVars, adapterVars >>

ClearCache == \E configId \in ConfigIds \cup {""} : clearCache(configId)

-----------------------------------------------------------------------------
(* The adapters.  An operation of an adapter is a function of its request  *)
(* and of what the remote service answers; it ends in a returned           *)
(* ApiResponse or in a rejected promise.  The values of a quote are        *)
(* sequences of characters, a number being one token; the empty sequence   *)
(* stands for undefined.                                                   *)

Undefined == << >>

NaN == << "NaN" >>

\* JSON's null.
JsonNull == << "null" >>

\* The built-in adapters, by provider id.
BuiltInAdapters == {"alpha-vantage", "finnhub", "indian-api"}

\* An object with none of the fields the model follows.
NoData == [symbol |-> Undefined, price |-> Undefined, currency |-> Undefined]

NoInvocation == [adapter |-> "", op |-> "none"]

\* A value of a parsed JSON tree that is no container, by its type and its
\* text.  An object is [type |-> "object", fields |-> key -> tree], an array
\* is [type |-> "array", items |-> sequence of trees].
Value(type, text) == [type |-> type, text |-> text]

\* kind: "success" and "failure" are returned ApiResponses, "ApiError" is a
\* promise rejected with the typed error, "Error" any other exception (seen
\* inside a try block only).  fetched: fetch() was called.  raised: the code
\* of the ApiError thrown inside the operation, if one was.  data: the object
\* of a result; points: its HistoricalDataPoint[], each point by its timestamp.
\* errors: the ValidationError[] of a validateResponse call ("returned");
\* value: what an extractValue call returned.
NoResult ==
  [kind |-> "none", code |-> "", error |-> "", fetched |-> FALSE, raised |-> "",
   data |-> NoData, points |-> << >>, errors |-> << >>,
   value |-> Value("undefined", "")]

AdapterInit == invocation = NoInvocation /\ result = NoResult

\* return {success: false, error: message}
Failure(message, fetched) ==
  [NoResult EXCEPT !.kind = "failure", !.error = message, !.fetched = fetched]

\* return {success: true, data}
Succeeds(data, points) ==
  [NoResult EXCEPT !.kind = "success", !.fetched = TRUE, !.data = data, !.points = points]

\* throw new ApiError(message, code) after the fetch.
Throw(message, code) ==
  [NoResult EXCEPT !.kind = "ApiError", !.code = code, !.raised = code,
                   !.error = message, !.fetched = TRUE]

\* An exception that is no ApiError: a rejected fetch, a TypeError.
ThrowError(message) ==
  [NoResult EXCEPT !.kind = "Error", !.error = message, !.fetched = TRUE]

\* catch (error) { if (error instanceof ApiError) throw error; return {success: false, error} }
Rethrow(ended) ==
  IF ended.kind = "Error" THEN [ended EXCEPT !.kind = "failure"] ELSE ended

\* catch (error) { return {success: false, error} }
Swallow(ended) ==
  IF ended.kind \in {"ApiError", "Error"}
  THEN [ended EXCEPT !.kind = "failure", !.code = ""]
  ELSE ended

\* response.status; 0 stands for a fetch that rejects.
Statuses == {0, 200, 404, 500}

\* response.ok
Ok(status) == status \in 200..299

\* The property names an object literal inherits from Object.prototype.
ObjectPrototype == {"constructor", "toString", "valueOf", "hasOwnProperty", "__proto__"}

\* The keys of functionMap, of resolutionMap and of intervalMap: the same
\* eight in the three adapters.
TableIntervals == {"1min", "5min", "15min", "30min", "1hour", "1day", "1week", "1month"}

\* table[key] on one of these object literals is truthy: the key is an own
\* property (every value of the tables is a non-empty string) or an
\* inherited one.
Truthy(key) == key \in TableIntervals \/ key \in ObjectPrototype

\* Timestamps of a run are 1..MaxTime; Null stands for an absent from, to or
\* limit.
MaxTime == 3

MaxLimit == 2

\* The intervals callers pass: typed ones and other strings (the client
\* takes interval: string and casts it).
Intervals == {"1day", "4hour", "2day", "constructor"}

RECURSIVE Orders(_)
\* The sequences that hold each element of the set once.
Orders(set) ==
  IF set = {} THEN { << >> }
  ELSE UNION { { << x >> \o rest : rest \in Orders(set \ {x}) } : x \in set }

\* What the remote answers to a historical request.  error: Alpha Vantage's
\* 'Error Message'; timeSeries: the body has a 'Time Series' key; s: Finnhub's
\* status; success: IndianApi's flag; series: the points in the order of the
\* body, each by its timestamp.
HistoricalBodies ==
  { [error |-> "", timeSeries |-> TRUE, s |-> "ok", success |-> TRUE, series |-> series] :
      series \in UNION { Orders(set) : set \in SUBSET (1..MaxTime) } }
  \cup { [error |-> "", timeSeries |-> FALSE, s |-> "no_data", success |-> FALSE,
          series |-> << >>],
         [error |-> "Invalid API call", timeSeries |-> FALSE, s |-> "error",
          success |-> FALSE, series |-> << >>] }

RECURSIVE SortAscending(_)
\* .sort((a, b) => a.timestamp.getTime() - b.timestamp.getTime())
SortAscending(points) ==
  IF points = << >> THEN << >>
  ELSE LET least == CHOOSE i \in 1..Len(points) :
                      /\ \A j \in 1..Len(points) : points[i] <= points[j]
                      /\ \A j \in 1..(i - 1) : points[j] # points[i]
       IN  << points[least] >>
             \o SortAscending(SubSeq(points, 1, least - 1)
                                \o SubSeq(points, least + 1, Len(points)))

\* if (request.from) filter(point => point.timestamp >= request.from), then
\* the same for request.to.
DateFilter(points, from, to) ==
  LET after == IF from = Null THEN points ELSE SelectSeq(points, LAMBDA t : t >= from)
  IN  IF to = Null THEN after ELSE SelectSeq(after, LAMBDA t : t <= to)

\* request.limit ? points.slice(-request.limit) : points
LastN(points, limit) ==
  IF limit = 0 \/ limit >= Len(points) THEN points
  ELSE SubSeq(points, Len(points) - limit + 1, Len(points))

\* AlphaVantageAdapter.getHistoricalData; response.ok is not looked at.
alphaVantage_getHistoricalData(request, status, body) ==
  IF ~Truthy(request.interval) THEN Failure("Unsupported interval", FALSE)
  ELSE Rethrow(
        IF status = 0 THEN ThrowError("fetch failed")
        ELSE IF body.error # "" THEN Throw(body.error, "INVALID_SYMBOL")
        ELSE IF ~body.timeSeries THEN Throw("No historical data available", "NO_DATA")
        ELSE Succeeds(NoData, LastN(DateFilter(SortAscending(body.series),
                                               request.from, request.to), request.limit)))

\* FinnhubAdapter.getHistoricalData
finnhub_getHistoricalData(request, status, body) ==
  IF ~Truthy(request.interval) THEN Failure("Unsupported interval", FALSE)
  ELSE Rethrow(
        IF status = 0 THEN ThrowError("fetch failed")
        ELSE IF ~Ok(status) THEN Throw("HTTP status", "HTTP_ERROR")
        ELSE IF body.s = "no_data" THEN Throw("No historical data available", "NO_DATA")
        ELSE IF body.s # "ok" THEN Throw("Failed to fetch data", "API_ERROR")
        ELSE Succeeds(NoData, LastN(body.series, request.limit)))

\* IndianApiAdapter.getHistoricalData
indianApi_getHistoricalData(request, status, body) ==
  IF ~Truthy(request.interval) THEN Failure("Unsupported interval", FALSE)
  ELSE Rethrow(
        IF status = 0 THEN ThrowError("fetch failed")
        ELSE IF ~Ok(status) THEN Throw("HTTP status", "HTTP_ERROR")
        ELSE IF ~body.success THEN Throw("No historical data available", "NO_DATA")
        ELSE Succeeds(NoData, body.series))

\* The symbols of a quote request, and of a quote body.
QuoteSymbols == { <<"g", "e">>, <<"G", "E">> }

\* A body with nothing in it.  error: Alpha Vantage's 'Error Message',
\* Finnhub's error; note: Alpha Vantage's 'Note'; quote: the body has a
\* 'Global Quote' object; symbol: '01. symbol', tickerId; price: '05. price',
\* c, currentPrice.NSE; high and low: h and l; changePercent:
\* '10. change percent'; currency: a field a custom mapping can read.
EmptyBody ==
  [error |-> "", note |-> FALSE, quote |-> TRUE, symbol |-> Undefined,
   price |-> Undefined, high |-> Undefined, low |-> Undefined,
   changePercent |-> Undefined, currency |-> Undefined]

FullBody(symbol) ==
  [EmptyBody EXCEPT !.symbol = symbol, !.price = << "5" >>, !.high = << "7" >>,
                    !.low = << "3" >>, !.changePercent = << "1%" >>,
                    !.currency = << "USD" >>]

\* What the remote answers to a quote request: a full quote in either
\* casing, an empty object, no quote object, a quote without its price or
\* with a null price, a quote of zeros, an error message, a rate-limit note.
QuoteBodies ==
  { FullBody(symbol) : symbol \in QuoteSymbols }
  \cup { EmptyBody,
         [EmptyBody EXCEPT !.quote = FALSE],
         [FullBody(<<"G", "E">>) EXCEPT !.price = Undefined],
         [FullBody(<<"G", "E">>) EXCEPT !.price = JsonNull],
         [FullBody(<<"G", "E">>) EXCEPT !.price = << "0" >>, !.high = << "0" >>,
                                        !.low = << "0" >>],
         [EmptyBody EXCEPT !.error = "Invalid API call"],
         [EmptyBody EXCEPT !.note = TRUE] }

parseFloat(value) == IF value \in { Undefined, JsonNull } THEN NaN ELSE value

\* AlphaVantageAdapter.getQuote; response.ok is not looked at.
alphaVantage_getQuote(request, status, body) ==
  Rethrow(
    IF status = 0 THEN ThrowError("fetch failed")
    ELSE IF body.error # "" THEN Throw(body.error, "INVALID_SYMBOL")
    ELSE IF body.note THEN Throw("API call frequency limit reached", "RATE_LIMIT_EXCEEDED")
    ELSE IF ~body.quote THEN Throw("No data available for symbol", "NO_DATA")
    ELSE IF body.changePercent = Undefined
      THEN ThrowError("Cannot read properties of undefined (reading 'replace')")
    ELSE Succeeds([symbol |-> body.symbol, price |-> parseFloat(body.price),
                   currency |-> << "USD" >>], << >>))

\* FinnhubAdapter.getQuote
finnhub_getQuote(request, status, body) ==
  Rethrow(
    IF status = 0 THEN ThrowError("fetch failed")
    ELSE IF ~Ok(status) THEN Throw("HTTP status", "HTTP_ERROR")
    ELSE IF body.error # "" THEN Throw(body.error, "API_ERROR")
    ELSE IF body.price = << "0" >> /\ body.high = << "0" >> /\ body.low = << "0" >>
      THEN Throw("No data available for symbol", "NO_DATA")
    ELSE Succeeds([symbol |-> toUpperCase(request.symbol), price |-> body.price,
                   currency |-> << "USD" >>], << >>))

\* IndianApiAdapter.getQuote; undefined and the number 0 are falsy.
indianApi_getQuote(request, status, body) ==
  Rethrow(
    IF status = 0 THEN ThrowError("fetch failed")
    ELSE IF status = 404 THEN Throw("Stock not found", "INVALID_SYMBOL")
    ELSE IF ~Ok(status) THEN Throw("HTTP status", "HTTP_ERROR")
    ELSE IF body.symbol = Undefined THEN Throw("No data available for symbol", "NO_DATA")
    ELSE IF body.price \in { Undefined, JsonNull, << "0" >> }
      THEN Throw("No price data available", "NO_DATA")
    ELSE Succeeds([symbol |-> body.symbol, price |-> body.price,
                   currency |-> << "INR" >>], << >>))

\* An ApiFieldMapping; a defaultValue of Undefined is none.
Mapping(sourceField, required, transform, defaultValue) ==
  [sourceField |-> sourceField, targetField |-> sourceField, required |-> required,
   transform |-> transform, defaultValue |-> defaultValue]

\* The fieldMappings of the operation invoked, as configurations give them.
FieldMappings ==
  { << >>,
    << Mapping("symbol", TRUE, "uppercase", Undefined),
       Mapping("price", TRUE, "parse_float", Undefined),
       Mapping("currency", FALSE, "none", << "USD" >>) >>,
    << Mapping("symbol", TRUE, "none", Undefined),
       Mapping("price", TRUE, "parse_float", Undefined) >>,
    << Mapping("price", TRUE, "none", Undefined),
       Mapping("symbol", TRUE, "uppercase", Undefined),
       Mapping("currency", TRUE, "none", Undefined) >>,
    << Mapping("symbol", FALSE, "uppercase", Undefined) >>,
    << Mapping("price", TRUE, "none", Undefined),
       Mapping("currency", FALSE, "none", Undefined),
       Mapping("price", TRUE, "parse_float", Undefined) >> }

\* The configuration of a built-in adapter's call: none.  A custom
\* configuration says, for the operation invoked, whether its endpoint is
\* configured and what its field mappings are.
NoCustomConfig == [endpoint |-> FALSE, mappings |-> << >>]

\* CustomApiAdapter.extractValue, for a path of one key.
extractValue(obj, path) == obj[path]

\* CustomApiAdapter.applyTransform
applyTransform(value, kind) ==
  CASE kind = "uppercase" -> toUpperCase(value)
    [] kind = "parse_float" -> parseFloat(value)
    [] OTHER -> value

RECURSIVE transformInto(_, _, _)
\* The loop of CustomApiAdapter.transform over the mappings left.
transformInto(out, rawResponse, mappings) ==
  IF mappings = << >> THEN out
  ELSE LET mapping == Head(mappings)
           value == extractValue(rawResponse, mapping.sourceField)
       IN  transformInto(
             IF value # Undefined /\ value # JsonNull
             THEN [out EXCEPT ![mapping.targetField] = applyTransform(value, mapping.transform)]
             ELSE IF mapping.defaultValue # Undefined
             THEN [out EXCEPT ![mapping.targetField] = mapping.defaultValue]
             ELSE out,
             rawResponse, Tail(mappings))

\* CustomApiAdapter.transform
transform(rawResponse, mappings) == transformInto(NoData, rawResponse, mappings)

\* The ValidationError[] pushed for the mappings, in order: one for each
\* whose extracted value is undefined or null.  (extractValue catches what
\* it raises, so the catch of the loop, FIELD_ACCESS_ERROR, is never entered.)
ErrorsOf(response, mappings) ==
  LET missing == SelectSeq(mappings, LAMBDA mapping :
                   extractValue(response, mapping.sourceField) \in { Undefined, JsonNull })
  IN  [i \in 1..Len(missing) |->
         [field |-> missing[i].sourceField,
          message |-> "Required field '" \o missing[i].sourceField \o "' is missing",
          code |-> "MISSING_REQUIRED_FIELD"]]

\* The mutation of validateResponse that does not filter the mappings.
validateResponse_Unfiltered(response, mappings) == ErrorsOf(response, mappings)

\* CustomApiAdapter.validateResponse
validateResponse(response, mappings) ==
  ErrorsOf(response, SelectSeq(mappings, LAMBDA mapping : mapping.required))

\* The text is one or more decimal digits: \d+
IsDigits(text) ==
  /\ Len(text) > 0
  /\ \A i \in 1..Len(text) : \E d \in 1..10 : SubSeq("0123456789", d, d) = SubSeq(text, i, i)

RECURSIVE parseInt(_)
\* parseInt of decimal digits.
parseInt(digits) ==
  IF digits = "" THEN 0
  ELSE 10 * parseInt(SubSeq(digits, 1, Len(digits) - 1))
         + (CHOOSE d \in 0..9 :
              SubSeq("0123456789", d + 1, d + 1) = SubSeq(digits, Len(digits), Len(digits)))

RECURSIVE split(_)
\* path.split('.')
split(path) ==
  LET dots == { i \in 1..Len(path) : SubSeq(path, i, i) = "." }
  IN  IF dots = {} THEN << path >>
      ELSE LET first == CHOOSE i \in dots : \A j \in dots : i <= j
           IN  << SubSeq(path, 1, first - 1) >> \o split(SubSeq(path, first + 1, Len(path)))

\* key.match(/^(.+)\[(\d+)\]$/): the position of the bracket that opens the
\* index, 0 when the key does not match.
arrayMatch(key) ==
  LET opens == { p \in 2..(Len(key) - 2) :
                   /\ SubSeq(key, p, p) = "["
                   /\ SubSeq(key, Len(key), Len(key)) = "]"
                   /\ IsDigits(SubSeq(key, p + 1, Len(key) - 1)) }
  IN  IF opens = {} THEN 0 ELSE CHOOSE p \in opens : TRUE

\* value[n] for a number n, of a value that is neither undefined nor null:
\* an item of an array, a character of a string, the property of an object
\* whose key is the number's text.
at(value, n) ==
  CASE value.type = "array" ->
         IF n < Len(value.items) THEN value.items[n + 1] ELSE Value("undefined", "")
    [] value.type = "string" ->
         IF n < Len(value.text) THEN Value("string", SubSeq(value.text, n + 1, n + 1))
         ELSE Value("undefined", "")
    [] value.type = "object" ->
         LET keys == { k \in DOMAIN value.fields :
                         IsDigits(k) /\ (k = "0" \/ SubSeq(k, 1, 1) # "0") /\ parseInt(k) = n }
         IN  IF keys = {} THEN Value("undefined", "")
             ELSE value.fields[CHOOSE k \in keys : TRUE]
    [] OTHER -> Value("undefined", "")

\* value[key] for a string key, of a value that is neither undefined nor
\* null: an own property, the length of an array or of a string (of at most
\* nine items), or a property inherited from the prototype.
get(value, key) ==
  IF IsDigits(key) /\ (key = "0" \/ SubSeq(key, 1, 1) # "0") THEN at(value, parseInt(key))
  ELSE IF value.type = "object" /\ key \in DOMAIN value.fields THEN value.fields[key]
  ELSE IF value.type = "array" /\ key = "length"
    THEN Value("number", SubSeq("0123456789", Len(value.items) + 1, Len(value.items) + 1))
  ELSE IF value.type = "string" /\ key = "length"
    THEN Value("number", SubSeq("0123456789", Len(value.text) + 1, Len(value.text) + 1))
  ELSE IF key \in ObjectPrototype THEN Value("function", "")
  ELSE Value("undefined", "")

\* The callback of the reduce in CustomApiAdapter.extractValue; a TypeError
\* stands for the exception that leaves the reduce.
step(current, key) ==
  LET open == arrayMatch(key)
  IN  IF current.type = "TypeError" THEN current
      ELSE IF open # 0
        THEN IF current.type \in {"undefined", "null"} THEN Value("TypeError", "")
             ELSE LET inner == get(current, SubSeq(key, 1, open - 1))
                  IN  IF inner.type \in {"undefined", "null"} THEN Value("undefined", "")
                      ELSE at(inner, parseInt(SubSeq(key, open + 1, Len(key) - 1)))
      ELSE IF current.type \in {"undefined", "null"} THEN Value("undefined", "")
      ELSE get(current, key)

RECURSIVE reduce(_, _)
\* keys.reduce(step, current)
reduce(keys, current) ==
  IF keys = << >> THEN current ELSE reduce(Tail(keys), step(current, Head(keys)))

\* CustomApiAdapter.extractValue on a parsed JSON tree; extractValue above is
\* its case of a one-key path on a flat object.
extractValueOf(obj, path) ==
  LET walked == reduce(split(path), obj)
  IN  IF walked.type = "TypeError" THEN Value("undefined", "") ELSE walked

\* The trees of a run: {a: {b: [{c: 5}]}, s: "xy", n: 5, z: null}, and a
\* number.
Trees ==
  { [type |-> "object",
     fields |-> [k \in {"a", "s", "n", "z"} |->
       CASE k = "a" ->
              [type |-> "object",
               fields |-> [j \in {"b"} |->
                 [type |-> "array",
                  items |-> << [type |-> "object",
                                fields |-> [i \in {"c"} |-> Value("number", "5")]] >>]]]
         [] k = "s" -> Value("string", "xy")
         [] k = "n" -> Value("number", "5")
         [] k = "z" -> Value("null", "")]],
    Value("number", "5") }

\* The paths of a run.
Paths ==
  { "a.b[0].c", "a.b[1].c", "a.b[0].d", "a.b[0]", "a.x.c", "a", "q", "q[0]", "n.c", "z.c",
    "z[0]", "z.c[0]", "s.c", "s.length", "s[0]", "a.constructor", "a.b.length", "a.b.0.c",
    "a.b[00].c", "a.b[x].c", "" }

\* ApiStructureDetector.getRequiredFields
getRequiredFields(type) ==
  CASE type = "quote" -> << "symbol", "price", "timestamp" >>
    [] type = "historical" -> << "timestamp", "open", "high", "low", "close", "volume" >>
    [] type = "profile" -> << "symbol", "name" >>
    [] type = "news" -> << "title", "publishedAt", "source" >>
    [] type = "search" -> << "symbol" >>
    [] OTHER -> << >>

\* The mutation of isFieldRequired that takes only the first field of the
\* kind as required.
isFieldRequired_FirstOnly(field, type) ==
  getRequiredFields(type) # << >> /\ Head(getRequiredFields(type)) = field

\* ApiStructureDetector.isFieldRequired
isFieldRequired(field, type) ==
  \E i \in 1..Len(getRequiredFields(type)) : getRequiredFields(type)[i] = field

RECURSIVE flatMap(_, _, _)
\* The filter and flatMap of generateMappings: the possible mappings to the
\* target field of the detected fields not used yet, in order, each with the
\* path of its field.  Confidences are in tenths.
flatMap(detectedFields, usedFields, targetField) ==
  IF detectedFields = << >> THEN << >>
  ELSE LET field == Head(detectedFields)
           matching == SelectSeq(field.possibleMappings,
                                 LAMBDA mapping : mapping.targetField = targetField)
       IN  (IF field.path \in usedFields THEN << >>
            ELSE [i \in 1..Len(matching) |->
                    [path |-> field.path, confidence |-> matching[i].confidence]])
           \o flatMap(Tail(detectedFields), usedFields, targetField)

RECURSIVE generateMappingsFor(_, _, _, _, _)
\* The forEach of generateMappings over the required fields left.
generateMappingsFor(requiredFields, mappings, usedFields, detectedFields, expectedType) ==
  IF requiredFields = << >> THEN mappings
  ELSE LET targetField == Head(requiredFields)
           found == flatMap(detectedFields, usedFields, targetField)
           \* sort((a, b) => b.confidence - a.confidence)[0], the sort being stable
           best == CHOOSE i \in 1..Len(found) :
                     \A j \in 1..Len(found) :
                       \/ found[j].confidence < found[i].confidence
                       \/ found[j].confidence = found[i].confidence /\ i <= j
       IN  IF found # << >> /\ found[best].confidence > 5
           THEN generateMappingsFor(
                  Tail(requiredFields),
                  Append(mappings, [sourceField |-> found[best].path,
                                    targetField |-> targetField,
                                    required |-> isFieldRequired(targetField, expectedType)]),
                  usedFields \cup {found[best].path}, detectedFields, expectedType)
           ELSE generateMappingsFor(Tail(requiredFields), mappings, usedFields,
                                    detectedFields, expectedType)

\* ApiStructureDetector.generateMappings
generateMappings(detectedFields, expectedType) ==
  generateMappingsFor(getRequiredFields(expectedType), << >>, {}, detectedFields,
                      expectedType)

\* ApiStructureDetector.calculateConfidence, the sum in tenths.
calculateConfidence(mappings) ==
  LET sum == 10 * Cardinality({ i \in 1..Len(mappings) : mappings[i].required })
               + 5 * Cardinality({ i \in 1..Len(mappings) : ~mappings[i].required })
  IN  IF Len(mappings) = 0 THEN "low"
      ELSE IF sum > 8 * Len(mappings) THEN "high"
      ELSE IF sum > 5 * Len(mappings) THEN "medium"
      ELSE "low"

\* The possibleMappings findPossibleMappings gives a field: at most three,
\* by falling confidence (0.9 and 0.7 for a name, 0.8 for a symbol-like value,
\* 0.6 for a price-like and 0.5 for a volume-like number).
PossibleMappings ==
  { << >>,
    << [targetField |-> "symbol", confidence |-> 9] >>,
    << [targetField |-> "symbol", confidence |-> 8] >>,
    << [targetField |-> "price", confidence |-> 9],
       [targetField |-> "close", confidence |-> 9] >>,
    << [targetField |-> "price", confidence |-> 6] >>,
    << [targetField |-> "volume", confidence |-> 5] >>,
    << [targetField |-> "publishedAt", confidence |-> 9],
       [targetField |-> "timestamp", confidence |-> 9] >>,
    << [targetField |-> "name", confidence |-> 7],
       [targetField |-> "title", confidence |-> 7] >> }

\* The detectedFields of a run: at most two fields.
DetectedFields ==
  { << >> }
    \cup { << [path |-> "a", possibleMappings |-> m] >> : m \in PossibleMappings }
    \cup { << [path |-> "a", possibleMappings |-> m],
              [path |-> "b", possibleMappings |-> n] >> : m, n \in PossibleMappings }

\* CustomApiAdapter.getAuthHeaders: header name -> value.
getAuthHeaders(config, credentials) ==
  CASE config.authType = "bearer_token" ->
         [h \in {"Authorization"} |-> "Bearer " \o credentials.apiKey]
    [] config.authType = "custom_header" ->
         [h \in {"X-Api-Key"} |-> credentials.apiKey]
    [] config.authType = "basic_auth" ->
         [h \in {"Authorization"} |-> "Basic " \o credentials.apiKey]
    [] OTHER -> EmptyMap

\* The names of the params object an operation of the custom adapter hands
\* to buildCustomUrl.
ParamNames(operation) ==
  CASE operation = "getHistoricalData" -> {"symbol", "interval", "from", "to", "limit"}
    [] operation = "getMarketNews" -> {"symbols", "category", "limit", "from", "to"}
    [] operation = "searchSymbols" -> {"query"}
    [] OTHER -> {"symbol"}

\* CustomApiAdapter.buildCustomUrl: the searchParams of the URL it returns,
\* for an endpoint url without a query; params maps names to values.
buildCustomUrl(config, params) ==
  LET keyed == IF config.authType = "api_key" /\ config.apiKeyParam # ""
               THEN MapSet(EmptyMap, config.apiKeyParam,
                           IF Has(params, "apiKey") /\ params.apiKey # ""
                           THEN params.apiKey ELSE "")
               ELSE EmptyMap
  IN  [k \in DOMAIN keyed \cup DOMAIN config.queryParams |->
         IF k \in DOMAIN config.queryParams THEN config.queryParams[k] ELSE keyed[k]]

\* CustomApiAdapter.getQuote, getHistoricalData, getCompanyProfile and
\* getMarketNews: the four bodies differ in the endpoint and the mappings
\* they read and in the parameters of the URL.
custom_operation(config, status, rawData) ==
  IF ~config.endpoint THEN Failure("endpoint not configured for this custom API", FALSE)
  ELSE Rethrow(
    IF status = 0 THEN ThrowError("fetch failed")
    ELSE IF ~Ok(status) THEN Throw("HTTP status", "HTTP_ERROR")
    ELSE LET errors == validateResponse(rawData, config.mappings)
         IN  IF Len(errors) > 0
             THEN Throw("Invalid response structure: " \o errors[1].message,
                        "INVALID_RESPONSE")
             ELSE Succeeds(transform(rawData, config.mappings), << >>))

\* AlphaVantageAdapter.searchSymbols
alphaVantage_searchSymbols(status, body) ==
  Swallow(
    IF status = 0 THEN ThrowError("fetch failed")
    ELSE IF body.error # "" THEN Throw(body.error, "API_ERROR")
    ELSE Succeeds(NoData, << >>))

\* FinnhubAdapter.searchSymbols
finnhub_searchSymbols(status, body) ==
  Swallow(
    IF status = 0 THEN ThrowError("fetch failed")
    ELSE IF ~Ok(status) THEN Throw("HTTP status", "HTTP_ERROR")
    ELSE Succeeds(NoData, << >>))

\* IndianApiAdapter.searchSymbols
indianApi_searchSymbols(status, body) ==
  Swallow(
    IF status = 0 THEN ThrowError("fetch failed")
    ELSE IF ~Ok(status) THEN Throw("HTTP status", "HTTP_ERROR")
    ELSE IF ~body.success THEN Throw("Search failed", "API_ERROR")
    ELSE Succeeds(NoData, << >>))

\* CustomApiAdapter.searchSymbols
custom_searchSymbols(config, status, rawData) ==
  IF ~config.endpoint THEN Failure("endpoint not configured for this custom API", FALSE)
  ELSE Swallow(
    IF status = 0 THEN ThrowError("fetch failed")
    ELSE IF ~Ok(status) THEN Throw("HTTP status", "HTTP_ERROR")
    ELSE Succeeds(transform(rawData, config.mappings), << >>))

\* What the remote answers to a profile, news or search request of a
\* built-in adapter.  error: Alpha Vantage's 'Error Message'; success:
\* IndianApi's flag; data: the body has its payload (Symbol, name, data; for
\* Finnhub's news, it is an array).
PlainBodies == [error : {"", "Invalid API call"}, success : BOOLEAN, data : BOOLEAN]

\* The operations whose request the model does not follow.
PlainOps == {"getCompanyProfile", "getMarketNews", "searchSymbols"}

\* The calls of a run, each with the remote's answer: the quote and
\* historical calls of the built-in adapters, their other calls, and the
\* calls of the custom adapter.
Invocations ==
  [adapter : BuiltInAdapters, op : {"getQuote"}, config : {NoCustomConfig},
   request : [symbol : QuoteSymbols], status : Statuses, body : QuoteBodies]
  \cup [adapter : BuiltInAdapters, op : {"getHistoricalData"}, config : {NoCustomConfig},
        request : [symbol : {<<"G", "E">>}, interval : Intervals,
                   from : {Null} \cup (1..MaxTime), to : {Null} \cup (1..MaxTime),
                   limit : 0..MaxLimit],
        status : {0, 200, 500}, body : HistoricalBodies]
  \cup [adapter : BuiltInAdapters, op : PlainOps, config : {NoCustomConfig},
        request : [symbol : {<<"G", "E">>}], status : Statuses, body : PlainBodies]
  \cup [adapter : {"custom"}, op : {"getQuote", "getHistoricalData"} \cup PlainOps,
        config : [endpoint : BOOLEAN, mappings : FieldMappings],
        request : [symbol : QuoteSymbols], status : Statuses, body : QuoteBodies]
  \cup [adapter : {"custom"}, op : {"validateResponse"},
        config : [endpoint : {TRUE}, mappings : FieldMappings],
        request : [symbol : {<<"G", "E">>}], status : {200}, body : QuoteBodies]
  \cup [adapter : {"custom"}, op : {"extractValue"}, config : {NoCustomConfig},
        request : [path : Paths], status : {200}, body : Trees]
  \cup [adapter : {"custom"}, op : {"fetch"},
        config : [authType : {"none", "api_key", "bearer_token", "custom_header",
                              "basic_auth"},
                  apiKeyParam : {"", "apikey"},
                  queryParams : {EmptyMap, [k \in {"format"} |-> "json"]}],
        request : [operation : {"getQuote", "getHistoricalData"} \cup PlainOps,
                   apiKey : {"", "secret"}],
        status : {200}, body : {EmptyBody}]
  \cup [adapter : {"detector"}, op : {"detectStructure"}, config : {NoCustomConfig},
        request : [expectedType : {"quote", "historical", "profile", "news", "search"}],
        status : {200}, body : DetectedFields]

\* The pending validateResponse call returns its errors.
ValidateResponse ==
  /\ invocation.op = "validateResponse"
  /\ result = NoResult
  /\ result' = [NoResult EXCEPT !.kind = "returned",
                                !.errors = validateResponse(invocation.body,
                                                            invocation.config.mappings)]
  /\ UNCHANGED << invocation, wsVars, factoryVars >>

\* The pending operation of a custom adapter makes its fetch: the URL's
\* searchParams and the headers of the request.
Fetch ==
  /\ invocation.op = "fetch"
  /\ result = NoResult
  /\ result' = [NoResult EXCEPT
       !.kind = "fetched",
       !.value = [type |-> "request",
                  searchParams |->
                    buildCustomUrl(invocation.config,
                                   [k \in ParamNames(invocation.request.operation) |-> "x"]),
                  headers |-> getAuthHeaders(invocation.config, invocation.request)]]
  /\ UNCHANGED << invocation, wsVars, factoryVars >>

\* The pending detectStructure call returns, the fields of the sample
\* response being detected.
DetectStructure ==
  /\ invocation.op = "detectStructure"
  /\ result = NoResult
  /\ LET suggestedMappings == generateMappings(invocation.body,
                                               invocation.request.expectedType)
     IN  result' = [NoResult EXCEPT
           !.kind = "returned",
           !.value = [type |-> "structure",
                      suggestedMappings |-> suggestedMappings,
                      confidence |-> calculateConfidence(suggestedMappings)]]
  /\ UNCHANGED << invocation, wsVars, factoryVars >>

\* The pending extractValue call returns.
ExtractValue ==
  /\ invocation.op = "extractValue"
  /\ result = NoResult
  /\ result' = [NoResult EXCEPT !.kind = "returned",
                                !.value = extractValueOf(invocation.body,
                                                         invocation.request.path)]
  /\ UNCHANGED << invocation, wsVars, factoryVars >>

\* The pending getQuote call runs to its end.
GetQuote ==
  /\ invocation.op = "getQuote"
  /\ result = NoResult
  /\ result' =
       LET request == invocation.request
           status == invocation.status
           body == invocation.body
       IN  CASE invocation.adapter = "alpha-vantage" -> alphaVantage_getQuote(request, status, body)
             [] invocation.adapter = "finnhub" -> finnhub_getQuote(request, status, body)
             [] invocation.adapter = "indian-api" -> indianApi_getQuote(request, status, body)
             [] invocation.adapter = "custom" ->
                  custom_operation(invocation.config, status, body)
  /\ UNCHANGED << invocation, wsVars, factoryVars >>

\* The pending getHistoricalData call runs to its end.
GetHistoricalData ==
  /\ invocation.op = "getHistoricalData"
  /\ result = NoResult
  /\ result' =
       LET request == invocation.request
           status == invocation.status
           body == invocation.body
       IN  CASE invocation.adapter = "alpha-vantage" ->
                  alphaVantage_getHistoricalData(request, status, body)
             [] invocation.adapter = "finnhub" ->
                  finnhub_getHistoricalData(request, status, body)
             [] invocation.adapter = "indian-api" ->
                  indianApi_getHistoricalData(request, status, body)
             [] invocation.adapter = "custom" ->
                  custom_operation(invocation.config, status, body)
  /\ UNCHANGED << invocation, wsVars, factoryVars >>

\* The pending getCompanyProfile call runs to its end: the getCompanyProfile
\* of AlphaVantageAdapter, of FinnhubAdapter, of IndianApiAdapter and of
\* CustomApiAdapter.
GetCompanyProfile ==
  /\ invocation.op = "getCompanyProfile"
  /\ result = NoResult
  /\ result' =
       LET status == invocation.status
           body == invocation.body
       IN  CASE invocation.adapter = "alpha-vantage" ->
                  Rethrow(
                    IF status = 0 THEN ThrowError("fetch failed")
                    ELSE IF body.error # "" THEN Throw(body.error, "INVALID_SYMBOL")
                    ELSE IF ~body.data THEN Throw("No company data available", "NO_DATA")
                    ELSE Succeeds(NoData, << >>))
             [] invocation.adapter = "finnhub" ->
                  Rethrow(
                    IF status = 0 THEN ThrowError("fetch failed")
                    ELSE IF ~Ok(status) THEN Throw("HTTP status", "HTTP_ERROR")
                    ELSE IF ~body.data THEN Throw("No company data available", "NO_DATA")
                    ELSE Succeeds(NoData, << >>))
             [] invocation.adapter = "indian-api" ->
                  Rethrow(
                    IF status = 0 THEN ThrowError("fetch failed")
                    ELSE IF ~Ok(status) THEN Throw("HTTP status", "HTTP_ERROR")
                    ELSE IF ~body.success \/ ~body.data
                      THEN Throw("No company data available", "NO_DATA")
                    ELSE Succeeds(NoData, << >>))
             [] invocation.adapter = "custom" ->
                  custom_operation(invocation.config, status, body)
  /\ UNCHANGED << invocation, wsVars, factoryVars >>

\* The pending getMarketNews call runs to its end: the getMarketNews of the
\* same four adapters.
GetMarketNews ==
  /\ invocation.op = "getMarketNews"
  /\ result = NoResult
  /\ result' =
       LET status == invocation.status
           body == invocation.body
       IN  CASE invocation.adapter = "alpha-vantage" ->
                  Rethrow(
                    IF status = 0 THEN ThrowError("fetch failed")
                    ELSE IF body.error # "" THEN Throw(body.error, "API_ERROR")
                    ELSE Succeeds(NoData, << >>))
             [] invocation.adapter = "finnhub" ->
                  Rethrow(
                    IF status = 0 THEN ThrowError("fetch failed")
                    ELSE IF ~Ok(status) THEN Throw("HTTP status", "HTTP_ERROR")
                    ELSE IF ~body.data THEN ThrowError("articles.slice is not a function")
                    ELSE Succeeds(NoData, << >>))
             [] invocation.adapter = "indian-api" ->
                  Rethrow(
                    IF status = 0 THEN ThrowError("fetch failed")
                    ELSE IF ~Ok(status) THEN Throw("HTTP status", "HTTP_ERROR")
                    ELSE IF ~body.success THEN Throw("Failed to fetch news", "API_ERROR")
                    ELSE Succeeds(NoData, << >>))
             [] invocation.adapter = "custom" ->
                  custom_operation(invocation.config, status, body)
  /\ UNCHANGED << invocation, wsVars, factoryVars >>

\* The pending searchSymbols call runs to its end.
SearchSymbols ==
  /\ invocation.op = "searchSymbols"
  /\ result = NoResult
  /\ result' =
       LET status == invocation.status
           body == invocation.body
       IN  CASE invocation.adapter = "alpha-vantage" -> alphaVantage_searchSymbols(status, body)
             [] invocation.adapter = "finnhub" -> finnhub_searchSymbols(status, body)
             [] invocation.adapter = "indian-api" -> indianApi_searchSymbols(status, body)
             [] invocation.adapter = "custom" ->
                  custom_searchSymbols(invocation.config, status, body)
  /\ UNCHANGED << invocation, wsVars, factoryVars >>

-----------------------------------------------------------------------------
(* The manager keeps its state per provider id, and a run follows one      *)
(* provider, any of the three wire formats.  Spec follows it through long  *)
(* lifecycles with few caller inputs, FeedSpec through shorter ones with   *)
(* every input.                                                            *)

Init == WsInit /\ (\E p \in Providers : scope = {p}) /\ FactoryInit /\ AdapterInit

Next ==
  \/ Connect(MaxSockets)
  \/ Disconnect
  \/ Subscribe(BriefArgs)
  \/ Unsubscribe(BriefArgs)
  \/ AddHandler(BriefHandlers)
  \/ RemoveHandler(BriefHandlers)
  \/ Cleanup
  \/ OnOpen
  \/ OnMessage
  \/ OnError
  \/ OnClose
  \/ TimerFires(MaxSockets)

Spec == Init /\ [][Next]_vars

FeedNext ==
  \/ Connect(MaxFeedSockets)
  \/ Disconnect
  \/ Subscribe(SymbolArgs)
  \/ Unsubscribe(SymbolArgs)
  \/ AddHandler(HandlerIds)
  \/ RemoveHandler(HandlerIds)
  \/ Cleanup
  \/ OnOpen
  \/ OnMessage
  \/ OnError
  \/ OnClose
  \/ TimerFires(MaxFeedSockets)

FeedSpec == Init /\ [][FeedNext]_vars

\* The adapter factory on its own: the manager stays as constructed.
FactoryStart == WsInit /\ scope = {} /\ FactoryInit /\ AdapterInit

FactoryNext ==
  \/ Register
  \/ GetAdapter
  \/ ClearCache

FactorySpec == FactoryStart /\ [][FactoryNext]_vars

\* The client's operations on the factory, interleaved at their awaits.
ClientNext ==
  \/ GetStockQuote
  \/ TestConnection
  \/ Settles
  \/ ClearCache

ClientSpec == FactoryStart /\ [][ClientNext]_vars

\* The adapters on their own: every step is one operation of one adapter.
AdapterNext ==
  \/ GetQuote
  \/ GetHistoricalData
  \/ GetCompanyProfile
  \/ GetMarketNews
  \/ SearchSymbols
  \/ ValidateResponse
  \/ ExtractValue
  \/ Fetch
  \/ DetectStructure

\* A run is one call: the call and the remote's answer are drawn at the start.
AdapterStart ==
  WsInit /\ scope = {} /\ FactoryInit /\ invocation \in Invocations /\ result = NoResult

AdapterSpec == AdapterStart /\ [][AdapterNext]_vars

-----------------------------------------------------------------------------
(* Properties of the connection manager. *)

PendingFor(providerId) == { t \in DOMAIN timers : timers[t].providerId = providerId }

\* The step creates a WebSocket for the provider.
ConnectAttempt(providerId) ==
  /\ Len(sockets') > Len(sockets)
  /\ sockets'[Len(sockets')].providerId = providerId

Live(providerId) ==
  { w \in 1..Len(sockets) : /\ sockets[w].providerId = providerId
                            /\ sockets[w].readyState \in {"CONNECTING", "OPEN"} }

IsAuthFrame(frame) == frame.field \in {"token", "apikey", "apiKey"}

IsSubscribeFrame(frame) == frame.type \in {"subscribe", "SUBSCRIBE"}

\* Only onopen sends an authentication frame, and it sends it first.
JustOpened == IF wire # << >> /\ IsAuthFrame(wire[1]) THEN {wire[1].sock} ELSE {}

SubscribedOnWire(ws) ==
  UNION { Range(wire[i].symbols) :
            i \in { j \in 1..Len(wire) : wire[j].sock = ws /\ IsSubscribeFrame(wire[j]) } }

\* C1: after disconnect(p) no connect attempt is made for p until the caller
\* calls connect(p): while the caller's last lifecycle call for p stays
\* disconnect, no step creates a socket for p.
C1_NoReconnectAfterDisconnect ==
  [][\A p \in Providers :
       (intent[p] = "disconnect" /\ intent'[p] = "disconnect") => ~ConnectAttempt(p)]_vars

\* C2: every provider has at most one pending reconnect timer, and it is the
\* one reconnectTimers tracks.
C2_OneTrackedTimer ==
  \A p \in Providers :
    /\ Cardinality(PendingFor(p)) <= 1
    /\ \A t \in PendingFor(p) : Has(reconnectTimers, p) /\ reconnectTimers[p] = t

\* C3: every provider has at most one socket that is connecting or open.
C3_OneLiveTransport == \A p \in Providers : Cardinality(Live(p)) <= 1

\* C4: whenever a socket opens, the step sends on it subscribe frames that
\* cover every symbol of the provider's subscription set.
C4_ResubscribeOnOpen ==
  \A ws \in JustOpened :
    Range(getSubscriptions(St, sockets[ws].providerId)) \subseteq SubscribedOnWire(ws)

C4_Witness ==
  \E ws \in JustOpened :
    /\ sockets[ws].origin = "reconnect"
    /\ Len(getSubscriptions(St, sockets[ws].providerId)) = 2
    /\ Cardinality(SubscribedOnWire(ws)) = 2

ScenarioConfig(providerId) ==
  sockets[CHOOSE w \in 1..Len(sockets) : sockets[w].providerId = providerId].config

BaseInterval(config) ==
  IF config.reconnectInterval = 0 THEN DefaultInterval ELSE config.reconnectInterval

AttemptCap(config) ==
  IF config.maxReconnectAttempts = 0 THEN DefaultMaxAttempts ELSE config.maxReconnectAttempts

Delays(providerId) == { timers[t].delay : t \in PendingFor(providerId) }

\* C5 as stated: in the lifecycle test the first abnormal close schedules a
\* reconnect after base * 2^0 and the abnormal close of the reconnect's socket
\* one after base * 2^1.
C5_SecondCloseDoubles ==
  \A p \in Providers :
    /\ scenario[p] = "closed once" => Delays(p) = { BaseInterval(ScenarioConfig(p)) }
    /\ scenario[p] \in {"closed twice", "closed twice after open"}
         => Delays(p) = { 2 * BaseInterval(ScenarioConfig(p)) }

\* C5 amended: the first abnormal close schedules a reconnect after base * 2^0;
\* the abnormal close of the reconnect's socket schedules one after base * 2^1
\* if that socket never opened and maxReconnectAttempts is above 1, none if it
\* never opened and maxReconnectAttempts is 1, and one after base * 2^0 if the
\* socket had opened (open resets the counter).
C5_BackoffFollowsCounter ==
  \A p \in Providers :
    /\ scenario[p] = "closed once" => Delays(p) = { BaseInterval(ScenarioConfig(p)) }
    /\ scenario[p] = "closed twice after open"
         => Delays(p) = { BaseInterval(ScenarioConfig(p)) }
    /\ scenario[p] = "closed twice"
         => Delays(p) = IF AttemptCap(ScenarioConfig(p)) > 1
                        THEN { 2 * BaseInterval(ScenarioConfig(p)) }
                        ELSE {}

C5_Witness ==
  \E p \in Providers :
    /\ scenario[p] = "closed twice"
    /\ Delays(p) = { 2 * BaseInterval(ScenarioConfig(p)) }

\* C6: once the attempt counter has reached the cap, automatic reconnection
\* is available again for the socket of the caller's next connect: when that
\* socket fails, its close event schedules a reconnect.  (The counter only
\* grows in a timer callback, which creates a socket, so a counter at the cap
\* while the caller's socket is the newest one was at the cap when the caller
\* connected.)
C6_ExplicitConnectRearms ==
  [][\A ws \in 1..Len(sockets) :
       ( /\ ws = Len(sockets)
         /\ sockets[ws].origin = "explicit"
         /\ sockets[ws].readyState = "CONNECTING"
         /\ sockets'[ws].readyState = "CLOSED"
         /\ Has(reconnectAttempts, sockets[ws].providerId)
         /\ reconnectAttempts[sockets[ws].providerId] >= AttemptCap(sockets[ws].config) )
       => ws \in DOMAIN timers']_vars

\* C7: the subscription set is what the caller's subscribe and unsubscribe
\* calls add up to, whatever the socket's state was at each call, and the
\* symbols subscribed when a socket opens are exactly that set.
C7_SubscriptionsFollowCalls ==
  /\ \A p \in Providers : Range(getSubscriptions(St, p)) = intended[p]
  /\ \A ws \in JustOpened : SubscribedOnWire(ws) = intended[sockets[ws].providerId]

C7_Witness ==
  \E ws \in JustOpened :
    /\ sockets[ws].origin = "reconnect"
    /\ offline[sockets[ws].providerId]
    /\ SubscribedOnWire(ws) # {}
    /\ Cardinality(SubscribedOnWire(ws)) < Len(wire)

\* C8: only subscribe, unsubscribe and cleanup change a subscription set.
C8_OnlyCallsChangeSubscriptions ==
  [][subscriptions' # subscriptions
       => (Subscribe(SymbolArgs) \/ Unsubscribe(SymbolArgs) \/ Cleanup)]_vars

C8_Witness ==
  \E p \in Providers :
    /\ Len(getSubscriptions(St, p)) > 0
    /\ intent[p] = "disconnect"
    /\ \E ws \in 1..Len(sockets) : sockets[ws].providerId = p /\ sockets[ws].readyState = "CLOSED"
    /\ \E ws \in 1..Len(sockets) : sockets[ws].providerId = p /\ sockets[ws].origin = "reconnect"

\* C9: cleanup leaves no tracked socket, no pending reconnect timer, no handler
\* and no subscription set, and no connect attempt is made afterwards until the
\* caller connects.
C9_CleanupLeavesNothing ==
  [][/\ Cleanup => /\ connections' = EmptyMap
                   /\ timers' = EmptyMap
                   /\ handlers' = EmptyMap
                   /\ subscriptions' = EmptyMap
     /\ \A p \in Providers :
          (intent[p] = "cleanup" /\ intent'[p] = "cleanup") => ~ConnectAttempt(p)]_vars

-----------------------------------------------------------------------------
(* Properties of the adapter factory. *)

\* The results of getAdapter, since the cache was last cleared, for providers
\* that are registered.
ServedRegistered == { r \in served : r.config.providerId \in adapters }

\* C10: of the adapters getAdapter returned for registered providers since the
\* cache was last cleared, two are the same object exactly if they were
\* returned for the same (providerId, configId).
C10_InstancePerKey ==
  \A a \in ServedRegistered : \A b \in ServedRegistered :
    (a.config = b.config) <=> (a.adapter = b.adapter)

\* C11: getAdapter returns null for a provider id that is not registered,
\* whatever the cache holds: no adapter is ever served for a configuration of
\* an unregistered provider.
C11_UnknownProviderGetsNull ==
  \A r \in served : r.config.providerId \in adapters

\* The cache without the entries created for a configuration with the id.
WithoutConfig(cache, configId) == SelectSeq(cache, LAMBDA e : e.createdFor.id # configId)

\* C12: clearCache(configId) removes exactly the cache entries created for a
\* configuration with that id, and clearCache() without an id empties the cache.
C12_ClearCacheByConfigId ==
  [][\A configId \in ConfigIds \cup {""} :
       clearCache(configId)
       => instances' = IF configId = "" THEN << >> ELSE WithoutConfig(instances, configId)]_vars

\* C13: get-or-create is atomic per key.  However the callers' operations
\* interleave, the cache never holds two entries for one key, and callers that
\* resolved the same (providerId, configId) since the cache was last cleared
\* hold the same adapter, the one the cache holds for that key.
C13_OneInstancePerKey ==
  /\ \A i \in 1..Len(instances) : \A j \in 1..Len(instances) :
       instances[i].key = instances[j].key => i = j
  /\ \A a \in Callers : \A b \in Callers :
       (calls[a].fresh /\ calls[b].fresh /\ calls[a].config = calls[b].config)
       => calls[a].adapter = calls[b].adapter
  /\ \A a \in Callers :
       calls[a].fresh
       => \E i \in 1..Len(instances) : /\ instances[i].key = CacheKey(calls[a].config)
                                       /\ instances[i].adapter = calls[a].adapter

C13_Witness ==
  /\ calls["w1"].fresh /\ calls["w2"].fresh
  /\ calls["w1"].op = "quote" /\ calls["w2"].op = "test"
  /\ calls["w1"].config = calls["w2"].config
  /\ calls["w1"].adapter = calls["w2"].adapter
  /\ Len(instances) = 2

\* C14: testConnection never throws; it reports success exactly when its
\* getQuote call succeeded, and a failure comes with a message.
C14_TestConnectionReports ==
  report.op = "test"
  => /\ ~report.thrown
     /\ report.success <=> report.outcome = "quote"
     /\ ~report.success => report.error # ""

C14_Witness ==
  /\ report.op = "test"
  /\ report.outcome = "ApiError"
  /\ ~report.success
  /\ report.error = "api error"


-----------------------------------------------------------------------------
(* The adapters' contracts.                                                *)

\* C15: for each of the three built-in adapters, getHistoricalData with an
\* interval that is not in the adapter's table ends in {success: false} and
\* fetch is not called for that request.
C15_UnsupportedIntervalFailsOffline ==
  (/\ invocation.op = "getHistoricalData"
   /\ invocation.adapter \in BuiltInAdapters
   /\ result # NoResult
   /\ invocation.request.interval \notin TableIntervals)
    => result.kind = "failure" /\ ~result.fetched

\* C16: for every built-in adapter and every remote series, in any order, a
\* successful getHistoricalData result is in ascending timestamp order, holds
\* only points within the optional from/to bounds, and with limit N holds at
\* most N points: the N most recent of those that passed the from/to filter.
C16_HistoricalNormalized ==
  (/\ invocation.op = "getHistoricalData"
   /\ invocation.adapter \in BuiltInAdapters
   /\ result.kind = "success") =>
    LET request == invocation.request
        kept == { t \in Range(invocation.body.series) :
                    /\ request.from # Null => t >= request.from
                    /\ request.to # Null => t <= request.to }
        recent == IF request.limit = 0 THEN kept
                  ELSE { t \in kept : Cardinality({ u \in kept : u > t }) < request.limit }
    IN  /\ \A i, j \in 1..Len(result.points) : i < j => result.points[i] < result.points[j]
        /\ Range(result.points) \subseteq kept
        /\ request.limit > 0 => Len(result.points) <= request.limit
        /\ Range(result.points) = recent

\* C17: every successful getQuote result of every adapter, the three
\* built-in ones and the custom one, has a currency and a symbol in upper
\* case, whatever the casing of the request and of the remote's answer.
C17_QuoteCurrencyAndUpperSymbol ==
  (invocation.op = "getQuote" /\ result.kind = "success") =>
    /\ result.data.currency # Undefined
    /\ result.data.symbol # Undefined
    /\ result.data.symbol = toUpperCase(result.data.symbol)

\* C18: for every built-in adapter, a getQuote whose parsed answer has no
\* price (an empty quote object, or a quote without its current-price field)
\* ends in an ApiError with code NO_DATA: never in a success without a price
\* and never in a generic {success: false}.
C18_NoPriceIsNoData ==
  (/\ invocation.op = "getQuote"
   /\ invocation.adapter \in BuiltInAdapters
   /\ result # NoResult
   /\ invocation.status = 200
   /\ invocation.body.error = ""
   /\ ~invocation.body.note
   /\ invocation.body.price = Undefined)
    => result.kind = "ApiError" /\ result.code = "NO_DATA"

\* C19: an ApiError raised inside an adapter operation (getQuote,
\* getHistoricalData, getCompanyProfile, getMarketNews or searchSymbols, of
\* any adapter) reaches the caller as a typed error with its code; it is
\* never turned into a generic {success: false, error}.
C19_ApiErrorReachesCaller ==
  (result # NoResult /\ result.raised # "") =>
    result.kind = "ApiError" /\ result.code = result.raised

\* C20: every custom-adapter operation whose endpoint is configured
\* validates the parsed answer against its required mappings before it
\* transforms it: it succeeds only if the source value of every required
\* mapping is there, and else it fails with an INVALID_RESPONSE ApiError
\* that names the first missing field.
C20_CustomValidatesBeforeTransform ==
  (/\ invocation.adapter = "custom"
   /\ invocation.op \in {"getQuote", "getHistoricalData"} \cup PlainOps
   /\ invocation.config.endpoint
   /\ Ok(invocation.status)
   /\ result # NoResult) =>
    LET missing == SelectSeq(invocation.config.mappings, LAMBDA mapping :
                     /\ mapping.required
                     /\ invocation.body[mapping.sourceField] \in { Undefined, JsonNull })
    IN  /\ result.kind = "success" => missing = << >>
        /\ missing # << >> =>
             /\ result.kind = "ApiError"
             /\ result.code = "INVALID_RESPONSE"
             /\ result.error = "Invalid response structure: Required field '"
                                 \o missing[1].sourceField \o "' is missing"


\* The number of a call's mappings that read the field, are required and
\* find it undefined or null in the response.
RequiredAndMissing(field) ==
  Cardinality({ i \in 1..Len(invocation.config.mappings) :
                  /\ invocation.config.mappings[i].sourceField = field
                  /\ invocation.config.mappings[i].required
                  /\ invocation.body[field] \in { Undefined, JsonNull } })

\* C21: validateResponse(response, mappings) returns exactly one error for
\* each required mapping whose extracted value is null or undefined and no
\* error for any other mapping, optional or required and present; so it
\* returns no error for a response that satisfies every required mapping.
C21_OneErrorPerMissingRequired ==
  (invocation.op = "validateResponse" /\ result # NoResult) =>
    \A field \in {"symbol", "price", "currency"} :
      Cardinality({ i \in 1..Len(result.errors) : result.errors[i].field = field })
        = RequiredAndMissing(field)

\* A response with a null price, validated against two required mappings of
\* the price and an optional one of the missing currency: two errors.
C21_Witness ==
  /\ invocation.op = "validateResponse"
  /\ invocation.body.price = JsonNull
  /\ invocation.body.currency # Undefined
  /\ Len(invocation.config.mappings) = 3
  /\ Len(result.errors) = 2


\* One segment of a walk as the contract reads it: a key of an object, with
\* an optional index into the array found under it.  "missing" stands for a
\* missing key, an index out of range or a step through a value that is no
\* container; "other" for a segment the contract says nothing about.
Segment(current, key) ==
  LET open == arrayMatch(key)
      name == IF open = 0 THEN key ELSE SubSeq(key, 1, open - 1)
  IN  IF current.type \in {"missing", "other"} THEN current
      ELSE IF current.type = "array" THEN Value("other", "")
      ELSE IF current.type # "object" THEN Value("missing", "")
      ELSE IF name \notin DOMAIN current.fields THEN Value("missing", "")
      ELSE IF open = 0 THEN current.fields[name]
      ELSE LET inner == current.fields[name]
               n == parseInt(SubSeq(key, open + 1, Len(key) - 1))
           IN  IF inner.type = "object" THEN Value("other", "")
               ELSE IF inner.type # "array" THEN Value("missing", "")
               ELSE IF n < Len(inner.items) THEN inner.items[n + 1]
               ELSE Value("missing", "")

RECURSIVE Walk(_, _)
Walk(keys, current) ==
  IF keys = << >> THEN current ELSE Walk(Tail(keys), Segment(current, Head(keys)))

\* C22: extractValue(tree, path) never raises; for a path of dot-separated
\* segments with an optional [index] suffix it returns the value found by
\* walking the tree, and it returns undefined for every path with a missing
\* key, an index out of range or a step through a value that is no container.
C22_ExtractValueWalks ==
  (invocation.op = "extractValue" /\ result # NoResult) =>
    LET found == Walk(split(invocation.request.path), invocation.body)
    IN  /\ result.kind = "returned"
        /\ found.type = "missing" => result.value = Value("undefined", "")
        /\ found.type \notin {"missing", "other"} => result.value = found


\* C23: when a canonical message is fanned out for a provider, every handler
\* registered for the provider at that moment is called exactly once with it,
\* also when handlers throw; a throwing handler neither stops the remaining
\* handlers nor closes the connection.
C23_FanOutReachesEveryHandler ==
  [][notified'.type # "" =>
       LET p == notified'.providerId
       IN  /\ Has(handlers, p)
           /\ \A h \in handlers[p] :
                Cardinality({ i \in 1..Len(notified'.calls) : notified'.calls[i] = h }) = 1
           /\ Range(notified'.calls) = handlers[p]
           /\ connections' = connections
           /\ sockets' = sockets
           /\ timers' = timers]_vars

\* A message was fanned out to two handlers, one of which throws, and the
\* connection is still open.
C23_Witness ==
  /\ notified.type = "quote"
  /\ Len(notified.calls) = 2
  /\ Range(notified.calls) \cap Throwing # {}
  /\ getConnectionStatus(St, notified.providerId) = "open"


\* C24: an inbound frame that fails to parse is dropped: no handler is called
\* and the connection does not change (the transport stays tracked and open,
\* no reconnect is scheduled), and the frames that come later on an open
\* transport are still parsed and delivered to every handler.
C24_UnparsableFrameIsDropped ==
  [][(notified'.frame # "" /\ ~JsonParses(notified'.frame)) =>
       /\ notified'.calls = << >>
       /\ notified'.type = ""
       /\ wire' = << >>
       /\ << connections, sockets, timers, reconnectTimers, reconnectAttempts,
             handlers, subscriptions >>'
            = << connections, sockets, timers, reconnectTimers, reconnectAttempts,
                 handlers, subscriptions >>
       /\ \A ws \in 1..Len(sockets'), data \in InboundFrames :
            (sockets'[ws].readyState = "OPEN" /\ JsonParses(data)) =>
              LET p == sockets'[ws].providerId
                  later == onmessage(St', ws, data).notified
              IN  Has(handlers', p) =>
                    /\ later.type = parseMessage(data, p)
                    /\ { later.calls[i] : i \in 1..Len(later.calls) } = handlers'[p]]_vars

\* A frame that does not parse came in on the tracked, open transport of a
\* provider with handlers, and no handler was called.
C24_Witness ==
  /\ notified.frame = "not json"
  /\ notified.calls = << >>
  /\ \E p \in scope :
       /\ getConnectionStatus(St, p) = "open"
       /\ Has(handlers, p)
       /\ handlers[p] # {}
       /\ reconnectTimers = EmptyMap


\* C25: a close event of a transport with a code other than 1000 schedules a
\* reconnect for its provider while the attempt cap is not reached, a close
\* event with code 1000 schedules none; an error event alone fans out an
\* error-typed message and schedules no reconnect.  Stated of every event a
\* transport of a reachable state can get next.
C25_CloseCodeDecidesReconnect ==
  \A ws \in 1..Len(sockets) :
    LET p == sockets[ws].providerId
        attempts == IF Has(reconnectAttempts, p) THEN reconnectAttempts[p] ELSE 0
    IN  /\ sockets[ws].readyState # "CLOSED" =>
             \A code \in CloseCodes(sockets[ws]) :
               LET S == onclose(St, ws, code)
               IN  /\ (code # NormalClosure /\ attempts < AttemptCap(sockets[ws].config)) =>
                         /\ Has(S.timers, ws)
                         /\ S.timers[ws].providerId = p
                         /\ Has(S.reconnectTimers, p)
                         /\ S.reconnectTimers[p] = ws
                   /\ code = NormalClosure =>
                         /\ S.timers = timers
                         /\ S.reconnectTimers = reconnectTimers
        /\ sockets[ws].readyState \in {"CONNECTING", "OPEN"} =>
             LET S == onerror(St, ws)
             IN  /\ S.timers = timers
                 /\ S.reconnectTimers = reconnectTimers
                 /\ S.connections = connections
                 /\ S.sockets = sockets
                 /\ Has(handlers, p) =>
                      /\ S.notified.type = "error"
                      /\ { S.notified.calls[i] : i \in 1..Len(S.notified.calls) } = handlers[p]

\* An open transport can close with either code, its provider has a handler
\* and no timer is pending, while the close of an earlier transport of the
\* provider has scheduled and run a reconnect.
C25_Witness ==
  \E ws \in 1..Len(sockets) :
    /\ sockets[ws].readyState = "OPEN"
    /\ sockets[ws].origin = "reconnect"
    /\ CloseCodes(sockets[ws]) = {NormalClosure, AbnormalClosure}
    /\ Has(handlers, sockets[ws].providerId)
    /\ handlers[sockets[ws].providerId] # {}
    /\ timers = EmptyMap


\* C26: on every open of a transport the provider's attempt counter is set to
\* 0, then the authentication frame is sent, then the subscribe frames for
\* the current subscription set; no subscribe or unsubscribe frame is sent on
\* a transport before its authentication frame (it is sent either after the
\* authentication frame in the same step or on a transport that an earlier
\* step opened).
C26_OpenResetsAuthenticatesSubscribes ==
  [][/\ \A ws \in 1..Len(sockets) :
          (sockets[ws].readyState = "CONNECTING" /\ sockets'[ws].readyState = "OPEN") =>
            LET p == sockets[ws].providerId
                rest == { i \in 2..Len(wire') : TRUE }
            IN  /\ Has(reconnectAttempts', p)
                /\ reconnectAttempts'[p] = 0
                /\ Len(wire') >= 1
                /\ IsAuthFrame(wire'[1])
                /\ \A i \in 1..Len(wire') : wire'[i].sock = ws /\ wire'[i].counter = 0
                /\ \A i \in rest : IsSubscribeFrame(wire'[i])
                /\ UNION { { wire'[i].symbols[k] : k \in 1..Len(wire'[i].symbols) } : i \in rest }
                     = { getSubscriptions(St, p)[k] : k \in 1..Len(getSubscriptions(St, p)) }
     /\ \A i \in 1..Len(wire') :
          ~IsAuthFrame(wire'[i]) =>
            \/ \E j \in 1..(i - 1) : IsAuthFrame(wire'[j]) /\ wire'[j].sock = wire'[i].sock
            \/ sockets[wire'[i].sock].readyState = "OPEN"]_vars

\* The transport of a reconnect has just opened for a provider with two
\* subscribed symbols: the counter is 0 again and the wire holds the
\* authentication frame followed by subscribe frames.
C26_Witness ==
  /\ Len(wire) >= 2
  /\ IsAuthFrame(wire[1])
  /\ IsSubscribeFrame(wire[2])
  /\ sockets[wire[1].sock].origin = "reconnect"
  /\ reconnectAttempts[sockets[wire[1].sock].providerId] = 0
  /\ Len(getSubscriptions(St, sockets[wire[1].sock].providerId)) = 2


\* C27: when connect(p) replaces an existing transport, the later close
\* event of the replaced transport does not affect the new one: the new
\* transport stays the one tracked for p, getConnectionStatus(p) reports its
\* state, subscribe(p, ...) while it is open sends frames on it and a later
\* disconnect(p) closes it.  Stated of the step that replaces a transport and
\* of the close event the replaced transport gets next, with either code.
C27_ReplacedTransportCloseIsIgnored ==
  [][\A p \in Providers :
       (/\ Has(connections, p)
        /\ Has(connections', p)
        /\ Len(sockets') > Len(sockets)
        /\ connections'[p] = Len(sockets')) =>
         LET old == connections[p]
             new == connections'[p]
         IN  \A code \in CloseCodes(sockets'[old]) :
               LET closed == onclose(St', old, code)
                   opened == onopen(closed, new)
               IN  /\ Has(closed.connections, p)
                   /\ closed.connections[p] = new
                   /\ getConnectionStatus(closed, p) = "connecting"
                   /\ getConnectionStatus(opened, p) = "open"
                   /\ \E i \in 1..Len(subscribe(opened, p, << <<"f">> >>).wire) :
                        /\ subscribe(opened, p, << <<"f">> >>).wire[i].sock = new
                        /\ subscribe(opened, p, << <<"f">> >>).wire[i].symbols = << <<"F">> >>
                   /\ disconnect(opened, p).sockets[new].readyState = "CLOSING"]_vars


\* C28: for a config with maxReconnectAttempts = N, for every N >= 0, the
\* manager makes at most N automatic reconnect attempts for a provider
\* between two consecutive opens or explicit connect calls, and the attempt
\* counter never exceeds N.  Stated of every step in which a reconnect timer
\* fires, with the manager's own count of the attempts: the attempt it makes
\* is at most the N-th and the counter it leaves is at most N.
C28_AtMostNReconnects ==
  [][\A timer \in DOMAIN timers :
       (/\ timer \notin DOMAIN timers'
        /\ Len(sockets') > Len(sockets)
        /\ sockets'[Len(sockets')].origin = "reconnect"
        /\ sockets'[Len(sockets')].providerId = timers[timer].providerId) =>
         LET p == timers[timer].providerId
             N == timers[timer].config.maxReconnectAttempts
         IN  /\ timers[timer].attempts + 1 <= N
             /\ Has(reconnectAttempts', p) => reconnectAttempts'[p] <= N]_vars


\* C29: for a custom adapter configured with authType api_key and an
\* apiKeyParam, the URL built for the request of any operation carries the
\* caller's credentials.apiKey as the value of that query parameter.
C29_UrlCarriesApiKey ==
  (/\ invocation.op = "fetch"
   /\ result # NoResult
   /\ invocation.config.authType = "api_key"
   /\ invocation.config.apiKeyParam # "") =>
     /\ Has(result.value.searchParams, invocation.config.apiKeyParam)
     /\ result.value.searchParams[invocation.config.apiKeyParam] = invocation.request.apiKey


\* C30: detectStructure never reports the confidence 'medium': every mapping
\* generateMappings produces is for a field required by the expected kind
\* and is marked required, so the confidence is 'low' exactly when no mapping
\* was produced and 'high' otherwise, however many of the required fields
\* were mapped.
C30_ConfidenceIsNeverMedium ==
  (invocation.op = "detectStructure" /\ result # NoResult) =>
    LET mappings == result.value.suggestedMappings
    IN  /\ result.value.confidence # "medium"
        /\ result.value.confidence = "low" <=> mappings = << >>
        /\ mappings # << >> => result.value.confidence = "high"
        /\ \A i \in 1..Len(mappings) :
             /\ mappings[i].required
             /\ isFieldRequired(mappings[i].targetField, invocation.request.expectedType)

\* A quote detection that mapped one of the three required fields reported
\* 'high'.
C30_Witness ==
  /\ invocation.op = "detectStructure"
  /\ invocation.request.expectedType = "quote"
  /\ result.kind = "returned"
  /\ Len(result.value.suggestedMappings) = 1
  /\ result.value.confidence = "high"

====
